---- MODULE Spec2Model ----
(***************************************************************************)
(* Model of the starkbot CLI:                                              *)
(*   - StatusTracker (lib/status.ts): the progress multiplexer;            *)
(*   - GatewayClient.chatStream (lib/gateway-client.ts): the SSE frame     *)
(*     decoder and event dispatcher of the chat stream;                    *)
(*   - the interactive sessions of modulesConnectCommand                   *)
(*     (commands/modules.ts) and dashboardCommand (commands/dashboard.ts). *)
(* Strings that are cut, searched or parsed are sequences of one-character *)
(* strings; the bytes of the connection are sequences of one-byte strings. *)
(***************************************************************************)
EXTENDS Integers, Sequences, FiniteSets, TLC

VARIABLES
    status,     \* the StatusTracker instance (chat.ts: const status = new StatusTracker())
    lastCall,   \* the last public method called on the tracker, with its argument
    before,     \* the tracker's fields right before lastCall
    pending,    \* bytes the remote still has to send on the chat connection
    received,   \* bytes read from the connection so far, the concatenation of all chunks
    straddled,  \* whether some chunk ended between the two characters of a delimiter
    carry,      \* TextDecoder state: bytes of an incomplete character held back
    buffer,     \* chatStream: let buffer
    frames,     \* the frames cut from the buffer so far, in order
    log,        \* the calls onEvent(event) made so far, in order
    handled,    \* number of onEvent calls that have completed (returned or thrown)
    pc,         \* chatStream: "idle", "reading", "done" (returned on a done event), "eof", "caught-oneshot", "caught-repl"
    session,    \* the variables of the interactive session: cursor, running flag, key map, timer, push connection
    terminal,   \* process.stdin and process.stdout: raw mode, data listeners, screen
    tasks,      \* the asynchronous handlers in flight, each suspended at an await
    proc,       \* the process: "none", "initializing", "running", "exit0", "exit1", "crashed"
    submitted,  \* the action submission requests sent so far, in order
    pressed,    \* number of key presses handled so far
    lastKey,    \* the key of the press handled by the last step, "none" after any other step
    command     \* the command that runs outside a session (chat, login, provision): its mode, where it is, what it has done so far

trackerVars == <<status, lastCall, before>>
chatVars    == <<pending, received, straddled, carry, buffer, frames, log, handled, pc, command>>
tuiVars     == <<session, terminal, tasks, proc, submitted, pressed, lastKey>>
vars        == <<status, lastCall, before, pending, received, straddled, carry, buffer, frames, log, handled, pc,
                 session, terminal, tasks, proc, submitted, pressed, lastKey, command>>

\* no interactive session: the state of the session variables in a chat run
NoSession ==
    /\ session = [cmd |-> "none"]
    /\ terminal = [raw |-> FALSE]
    /\ tasks = <<>>
    /\ proc = "none"
    /\ submitted = <<>>
    /\ pressed = 0
    /\ lastKey = "none"

\* No chat command is running.
NoCommand == [mode |-> "none"]

-----------------------------------------------------------------------------
(* JavaScript values *)

\* a member that is absent from an object (undefined)
UNDEF == "undefined"
\* a JSON number used as a value where a string is expected
NUM == "number:5"

\* SseEvent: the members the handlers read; js tells an object from a bare string
SseEvent(type, content, tool_name, label, agent_subtype, task_name) ==
    [js |-> "object", str |-> UNDEF, type |-> type, content |-> content,
     tool_name |-> tool_name, label |-> label, agent_subtype |-> agent_subtype,
     task_name |-> task_name]

\* a JSON string value: every member read from it is undefined
JsString(s) ==
    [js |-> "string", str |-> s, type |-> UNDEF, content |-> UNDEF,
     tool_name |-> UNDEF, label |-> UNDEF, agent_subtype |-> UNDEF,
     task_name |-> UNDEF]

\* a ?? b
Nullish(a, b) == IF a = UNDEF THEN b ELSE a

\* truthiness of an optional string member
Truthy(a) == a # UNDEF /\ a # ""

\* array.includes(x)
Includes(arr, x) == \E i \in 1..Len(arr) : arr[i] = x

\* array.filter(pred) for the predicate t !== name
RECURSIVE FilterNot(_, _)
FilterNot(arr, name) ==
    IF arr = <<>> THEN <<>>
    ELSE IF Head(arr) = name THEN FilterNot(Tail(arr), name)
         ELSE <<Head(arr)>> \o FilterNot(Tail(arr), name)

-----------------------------------------------------------------------------
(* StatusTracker, lib/status.ts.  A tracker is a record of its fields; the *)
(* ora spinner is its two observable members isSpinning and text (the      *)
(* terminal is interactive, so start() does spin).                         *)

\* the text of the status line: prefix() and the segments it is built from
Text(pfx, subagents, tools, msg) ==
    [prefix |-> pfx, subagents |-> subagents, tools |-> tools, msg |-> msg]

NoText == Text("", <<>>, <<>>, "")

NewTracker ==
    [activeSubtype |-> "", activeTools |-> <<>>, activeSubagents |-> <<>>,
     paused |-> FALSE, isSpinning |-> FALSE, text |-> NoText]

\* spinner.stop()
stop(tr) == [tr EXCEPT !.isSpinning = FALSE]

\* ensureSpinning without the paused test
ensureSpinningIgnorePause(tr, text) ==
    IF tr.isSpinning THEN [tr EXCEPT !.text = text]
    ELSE [tr EXCEPT !.text = text, !.isSpinning = TRUE]

ensureSpinning(tr, text) ==
    IF tr.paused THEN tr
    ELSE IF tr.isSpinning THEN [tr EXCEPT !.text = text]
    ELSE [tr EXCEPT !.text = text, !.isSpinning = TRUE]

\* updateSpinner that leaves the spinner alone when nothing is active
updateSpinnerNoStop(tr) ==
    IF tr.activeSubagents = <<>> /\ tr.activeTools = <<>>
    THEN tr
    ELSE ensureSpinning(tr, Text(tr.activeSubtype, tr.activeSubagents, tr.activeTools, ""))

updateSpinner(tr) ==
    IF tr.activeSubagents = <<>> /\ tr.activeTools = <<>>
    THEN IF tr.isSpinning /\ ~tr.paused THEN stop(tr) ELSE tr
    ELSE ensureSpinning(tr, Text(tr.activeSubtype, tr.activeSubagents, tr.activeTools, ""))

\* addTool without the includes test
addToolAlways(tr, name) ==
    updateSpinner([tr EXCEPT !.activeTools = Append(@, name)])

addTool(tr, name) ==
    updateSpinner(IF ~Includes(tr.activeTools, name)
                  THEN [tr EXCEPT !.activeTools = Append(@, name)]
                  ELSE tr)

\* removeTool by splice(indexOf(name), 1): an absent name removes the last tool
removeToolSplice(tr, name) ==
    updateSpinner([tr EXCEPT !.activeTools =
        IF Includes(@, name) THEN FilterNot(@, name)
        ELSE SubSeq(@, 1, Len(@) - 1)])

removeTool(tr, name) ==
    updateSpinner([tr EXCEPT !.activeTools = FilterNot(@, name)])

\* Map.set: an existing key keeps its place, a new key goes last
MapSet(m, key, value) ==
    IF \E i \in 1..Len(m) : m[i].label = key
    THEN [i \in 1..Len(m) |-> IF m[i].label = key THEN [label |-> key, subtype |-> value] ELSE m[i]]
    ELSE Append(m, [label |-> key, subtype |-> value])

\* Map.delete
RECURSIVE MapDelete(_, _)
MapDelete(m, key) ==
    IF m = <<>> THEN <<>>
    ELSE IF Head(m).label = key THEN MapDelete(Tail(m), key)
         ELSE <<Head(m)>> \o MapDelete(Tail(m), key)

addSubagent(tr, label, subtype) ==
    updateSpinner([tr EXCEPT !.activeSubagents = MapSet(@, label, Nullish(subtype, ""))])

\* removeSubagent without the delete
removeSubagentKeep(tr, label) ==
    updateSpinner(tr)

removeSubagent(tr, label) ==
    updateSpinner([tr EXCEPT !.activeSubagents = MapDelete(@, label)])

setSubtype(tr, subtype) ==
    updateSpinner([tr EXCEPT !.activeSubtype = subtype])

setThinking(tr, message) ==
    ensureSpinning(tr, Text(tr.activeSubtype, <<>>, <<>>,
                            IF Truthy(message) THEN message ELSE "thinking..."))

setTask(tr, taskName) ==
    ensureSpinning(tr, Text(tr.activeSubtype, <<>>, <<>>, taskName))

pauseForText(tr) ==
    [(IF tr.isSpinning THEN stop(tr) ELSE tr) EXCEPT !.paused = TRUE]

\* resumeAfterText that does not reset the paused flag
resumeAfterTextKeepPaused(tr) ==
    IF Len(tr.activeTools) > 0 \/ Len(tr.activeSubagents) > 0 THEN updateSpinner(tr) ELSE tr

resumeAfterText(tr) ==
    LET t == [tr EXCEPT !.paused = FALSE]
    IN IF Len(t.activeTools) > 0 \/ Len(t.activeSubagents) > 0 THEN updateSpinner(t) ELSE t

\* finish that does not reset the paused flag
finishKeepPaused(tr) ==
    [(IF tr.isSpinning THEN stop(tr) ELSE tr)
        EXCEPT !.activeTools = <<>>, !.activeSubagents = <<>>, !.activeSubtype = ""]

finish(tr) ==
    [(IF tr.isSpinning THEN stop(tr) ELSE tr)
        EXCEPT !.activeTools = <<>>, !.activeSubagents = <<>>,
               !.activeSubtype = "", !.paused = FALSE]

\* process.stdout.write(chunk) throws a TypeError for a chunk that is not a string
WriteThrows(chunk) == chunk = NUM

\* handleEvent: the tracker after the call, and whether the call threw
handleEvent(tr, event) ==
    CASE event.type = "tool_call" ->
            [threw |-> FALSE, tr |-> addTool(tr, Nullish(event.tool_name, "unknown"))]
      [] event.type = "tool_result" ->
            [threw |-> FALSE, tr |-> removeTool(tr, Nullish(event.tool_name, "unknown"))]
      [] event.type = "subagent_spawned" ->
            [threw |-> FALSE, tr |-> addSubagent(tr, Nullish(event.label, "?"), event.agent_subtype)]
      [] event.type \in {"subagent_completed", "subagent_failed"} ->
            [threw |-> FALSE, tr |-> removeSubagent(tr, Nullish(event.label, "?"))]
      [] event.type = "subtype_change" ->
            [threw |-> FALSE,
             tr |-> setSubtype(tr, Nullish(event.agent_subtype, Nullish(event.label, "")))]
      [] event.type = "thinking" ->
            [threw |-> FALSE, tr |-> setThinking(tr, event.content)]
      [] event.type = "task_started" ->
            [threw |-> FALSE,
             tr |-> IF Truthy(event.task_name) THEN setTask(tr, event.task_name) ELSE tr]
      [] event.type = "task_completed" ->
            [threw |-> FALSE, tr |-> updateSpinner(tr)]
      [] event.type = "text" ->
            IF Truthy(event.content) /\ WriteThrows(event.content)
            THEN [threw |-> TRUE, tr |-> pauseForText(tr)]
            ELSE [threw |-> FALSE, tr |-> resumeAfterText(pauseForText(tr))]
      [] event.type = "done" ->
            [threw |-> FALSE, tr |-> finish(tr)]
      [] OTHER ->
            [threw |-> FALSE, tr |-> tr]

-----------------------------------------------------------------------------
(* The events the tracker is driven with *)

ToolNameArgs == {"search", UNDEF}

\* <<label, agent_subtype>> of the sub-agent events and of subtype_change
SpawnArgs   == {<<"alpha", "finance">>, <<"alpha", UNDEF>>, <<UNDEF, UNDEF>>}
SubtypeArgs == {<<"alpha", UNDEF>>, <<UNDEF, UNDEF>>}

TrackerEvents ==
       {SseEvent(t, UNDEF, n, UNDEF, UNDEF, UNDEF) :
            t \in {"tool_call", "tool_result"}, n \in ToolNameArgs}
  \cup {SseEvent("subagent_spawned", UNDEF, UNDEF, a[1], a[2], UNDEF) : a \in SpawnArgs}
  \cup {SseEvent(t, UNDEF, UNDEF, l, UNDEF, UNDEF) :
            t \in {"subagent_completed", "subagent_failed"}, l \in {"alpha", UNDEF}}
  \cup {SseEvent("subtype_change", UNDEF, UNDEF, a[1], a[2], UNDEF) : a \in SubtypeArgs}
  \cup {SseEvent("task_started", UNDEF, UNDEF, UNDEF, UNDEF, n) : n \in {"job", UNDEF}}
  \cup {SseEvent("text", c, UNDEF, UNDEF, UNDEF, UNDEF) : c \in {"hi", UNDEF, NUM}}
  \cup {SseEvent(t, UNDEF, UNDEF, UNDEF, UNDEF, UNDEF) :
            t \in {"thinking", "task_completed", "done", "ping"}}

NoCall == [op |-> "none", event |-> SseEvent(UNDEF, UNDEF, UNDEF, UNDEF, UNDEF, UNDEF)]

Call(op, event) == [op |-> op, event |-> event]

\* status.handleEvent(event); an exception leaves the tracker as it was when thrown
HandleEvent(event) ==
    /\ status' = handleEvent(status, event).tr
    /\ lastCall' = Call("handleEvent", event)
    /\ before' = status
    /\ UNCHANGED chatVars
    /\ UNCHANGED tuiVars

PauseForText ==
    /\ status' = pauseForText(status)
    /\ lastCall' = Call("pauseForText", NoCall.event)
    /\ before' = status
    /\ UNCHANGED chatVars
    /\ UNCHANGED tuiVars

ResumeAfterText ==
    /\ status' = resumeAfterText(status)
    /\ lastCall' = Call("resumeAfterText", NoCall.event)
    /\ before' = status
    /\ UNCHANGED chatVars
    /\ UNCHANGED tuiVars

Finish ==
    /\ status' = finish(status)
    /\ lastCall' = Call("finish", NoCall.event)
    /\ before' = status
    /\ UNCHANGED chatVars
    /\ UNCHANGED tuiVars

InitTracker ==
    /\ status = NewTracker
    /\ lastCall = NoCall
    /\ before = NewTracker

InitStatus ==
    /\ InitTracker
    /\ pending = <<>>
    /\ received = <<>>
    /\ straddled = FALSE
    /\ carry = <<>>
    /\ buffer = <<>>
    /\ frames = <<>>
    /\ log = <<>>
    /\ handled = 0
    /\ pc = "idle"
    /\ NoSession
    /\ command = NoCommand

NextStatus ==
    \/ \E event \in TrackerEvents : HandleEvent(event)
    \/ PauseForText
    \/ ResumeAfterText
    \/ Finish

SpecStatus == InitStatus /\ [][NextStatus]_vars

-----------------------------------------------------------------------------
(* Strings: sequences of characters, with the JavaScript string methods    *)
(* chatStream uses (positions are 0-based as in the source)                *)

NL == "\n"
Q  == "\""

\* s.indexOf("\n\n")
IndexOfDelimiter(s) ==
    LET hits == {i \in 1..(Len(s) - 1) : s[i] = NL /\ s[i + 1] = NL}
    IN IF hits = {} THEN -1
       ELSE (CHOOSE i \in hits : \A j \in hits : i <= j) - 1

\* s.slice(from, to) and s.slice(from)
Slice(s, from, to) == SubSeq(s, from + 1, to)
SliceFrom(s, from) == SubSeq(s, from + 1, Len(s))

\* s.split("\n")
RECURSIVE Split(_)
Split(s) ==
    LET hits == {i \in 1..Len(s) : s[i] = NL}
    IN IF hits = {} THEN <<s>>
       ELSE LET i == CHOOSE k \in hits : \A j \in hits : k <= j
            IN <<SubSeq(s, 1, i - 1)>> \o Split(SubSeq(s, i + 1, Len(s)))

\* s.startsWith(p)
StartsWith(s, p) == Len(s) >= Len(p) /\ SubSeq(s, 1, Len(p)) = p

\* lines.join("\n")
RECURSIVE Join(_)
Join(lines) ==
    IF lines = <<>> THEN <<>>
    ELSE IF Len(lines) = 1 THEN lines[1]
    ELSE lines[1] \o <<NL>> \o Join(Tail(lines))

\* the concatenation of a sequence of strings
RECURSIVE Concat(_)
Concat(ss) == IF ss = <<>> THEN <<>> ELSE Head(ss) \o Concat(Tail(ss))

-----------------------------------------------------------------------------
(* The wire vocabulary of the model *)

\* the prefix of a data line
DataPrefix ==
    <<"d", "a", "t", "a", ":", " ">>
\* JSON documents
JsonText ==
    <<"{", Q, "t", "y", "p", "e", Q, ":", Q, "t", "e", "x", "t", Q, ",", Q,
    "c", "o", "n", "t", "e", "n", "t", Q, ":", Q, "h", "i", Q, "}">>
JsonDone ==
    <<"{", Q, "t", "y", "p", "e", Q, ":", Q, "d", "o", "n", "e", Q, "}">>
JsonHi ==
    <<Q, "h", "i", Q>>
JsonEmpty ==
    <<"{", "}">>
JsonTool ==
    <<"{", Q, "t", "y", "p", "e", Q, ":", Q, "t", "o", "o", "l", "_", "c", "a",
    "l", "l", Q, ",", Q, "t", "o", "o", "l", "_", "n", "a", "m", "e", Q, ":", Q,
    "s", "e", "a", "r", "c", "h", Q, "}">>
\* {"type":"text","content":5}: a text event whose content is a number
JsonNum ==
    <<"{", Q, "t", "y", "p", "e", Q, ":", Q, "t", "e", "x", "t", Q, ",", Q,
    "c", "o", "n", "t", "e", "n", "t", Q, ":", "5", "}">>
\* one JSON document cut into two fragments
FragmentA ==
    <<"{", Q, "t", "y", "p", "e", Q, ":">>
FragmentB ==
    <<Q, "d", "o", "n", "e", Q, "}">>
\* the byte stream of two frames that carry an event: label line
ScenarioStream ==
    <<"e", "v", "e", "n", "t", ":", " ", "t", "e", "x", "t", NL, "d", "a",
    "t", "a", ":", " ", Q, "h", "i", Q, NL, NL, "e", "v", "e", "n", "t", ":",
    " ", "d", "o", "n", "e", NL, "d", "a", "t", "a", ":", " ", "{", "}", NL, NL>>

\* the byte stream of the two frames text "hi" and done, the kind in the payload
TypedStream ==
    DataPrefix \o JsonText \o <<NL, NL>> \o DataPrefix \o JsonDone \o <<NL, NL>>

\* the byte stream of one frame whose two data lines carry the fragments of one document
FragmentStream ==
    DataPrefix \o FragmentA \o <<NL>> \o DataPrefix \o FragmentB \o <<NL, NL>>

\* the byte stream of the two frames tool_call "search" and done
ToolStream ==
    DataPrefix \o JsonTool \o <<NL, NL>> \o DataPrefix \o JsonDone \o <<NL, NL>>

\* the byte stream of three frames: a text event the handler throws on, text
\* "hi" and done
ThrowingStream ==
    DataPrefix \o JsonNum \o <<NL, NL>> \o DataPrefix \o JsonText \o <<NL, NL>>
        \o DataPrefix \o JsonDone \o <<NL, NL>>

\* the line ":e-acute" as bytes: a comment line, its last character two bytes long
CommentBytes ==
    <<":", "C3", "A9">>

\* the longest stream is made of MaxSegments segments
MaxSegments == 2

\* a text data line, a done data line, a data line that is no JSON, a comment, nothing
Texts ==
    {DataPrefix \o JsonText, DataPrefix \o JsonDone, DataPrefix \o FragmentA,
     CommentBytes, <<>>}

Segments == {t \o e : t \in Texts, e \in {<<NL>>, <<NL, NL>>}}

RECURSIVE StreamsOf(_)
StreamsOf(n) ==
    IF n = 0 THEN {<<>>}
    ELSE LET shorter == StreamsOf(n - 1)
         IN shorter \cup {s \o g : s \in shorter, g \in Segments}

Streams == StreamsOf(MaxSegments) \cup {ScenarioStream, FragmentStream, ToolStream, ThrowingStream}

-----------------------------------------------------------------------------
(* TextDecoder.decode(value, { stream: true }): UTF-8 to characters; the   *)
(* bytes of a character cut by the end of the chunk are held back.         *)

\* the characters of a byte sequence and the bytes held back at its end
Decode(held, bytes) ==
    LET all == held \o bytes
        n == Len(all)
        cut == n > 0 /\ all[n] = "C3"
        body == IF cut THEN SubSeq(all, 1, n - 1) ELSE all
        char(i) ==
            CASE body[i] = "C3" -> IF body[i + 1] = "A9" THEN "" ELSE "U+FFFD"
              [] body[i] = "A9" -> IF i > 1 /\ body[i - 1] = "C3" THEN "U+00E9" ELSE "U+FFFD"
              [] OTHER -> body[i]
    IN [text |-> SelectSeq([i \in 1..Len(body) |-> char(i)], LAMBDA c : c # ""),
        carry |-> IF cut THEN <<"C3">> ELSE <<>>]

\* decoder.decode(value) without the stream option: nothing is held back
DecodeStreamFlush(held, bytes) ==
    LET d == Decode(<<>>, bytes)
    IN [text |-> d.text \o (IF d.carry # <<>> THEN <<"U+FFFD">> ELSE <<>>), carry |-> <<>>]

\* decoder.decode(value, { stream: true })
DecodeStream(held, bytes) == Decode(held, bytes)

-----------------------------------------------------------------------------
(* JSON.parse on the documents of the vocabulary: white space between      *)
(* tokens is skipped; any other text is a SyntaxError.                     *)

SkipNewlines(s) == SelectSeq(s, LAMBDA c : c # NL)

JSONparse(s) ==
    LET t == SkipNewlines(s)
        none == SseEvent(UNDEF, UNDEF, UNDEF, UNDEF, UNDEF, UNDEF)
    IN CASE t = JsonText  -> [ok |-> TRUE, value |-> SseEvent("text", "hi", UNDEF, UNDEF, UNDEF, UNDEF)]
         [] t = JsonDone  -> [ok |-> TRUE, value |-> SseEvent("done", UNDEF, UNDEF, UNDEF, UNDEF, UNDEF)]
         [] t = JsonTool  -> [ok |-> TRUE, value |-> SseEvent("tool_call", UNDEF, "search", UNDEF, UNDEF, UNDEF)]
         [] t = JsonNum   -> [ok |-> TRUE, value |-> SseEvent("text", NUM, UNDEF, UNDEF, UNDEF, UNDEF)]
         [] t = JsonHi    -> [ok |-> TRUE, value |-> JsString("hi")]
         [] t = JsonEmpty -> [ok |-> TRUE, value |-> none]
         [] OTHER         -> [ok |-> FALSE, value |-> none]

-----------------------------------------------------------------------------
(* GatewayClient.chatStream, lib/gateway-client.ts.  A decoding state is   *)
(* the record of what one pass over the buffer reads and writes.           *)

\* onEvent(event) with a handler that is deferred instead of run by the call
DispatchDeferred(st, event) ==
    LET r == handleEvent(st.status, event)
    IN [st EXCEPT !.log = Append(@, [frame |-> Len(st.frames), event |-> event,
                                     seen |-> st.handled, threw |-> r.threw]),
                  !.status = r.tr]

\* onEvent(event), the call made by chatStream with the StatusTracker as handler
Dispatch(st, event) ==
    LET r == handleEvent(st.status, event)
    IN [st EXCEPT !.log = Append(@, [frame |-> Len(st.frames), event |-> event,
                                     seen |-> st.handled, threw |-> r.threw]),
                  !.status = r.tr,
                  !.handled = @ + 1]

\* the catch block throws the error on: chatStream ends there
skipMalformedRethrows(st) ==
    [st EXCEPT !.returned = TRUE]

\* catch { /* skip malformed events */ } around JSON.parse and onEvent
skipMalformed(st) ==
    st

\* the loop over the lines without "if (isDone) return"
RECURSIVE ProcessLinesNoReturn(_, _, _)
ProcessLinesNoReturn(st, lines, i) ==
    IF i > Len(lines) THEN st
    ELSE IF ~StartsWith(lines[i], DataPrefix) THEN ProcessLinesNoReturn(st, lines, i + 1)
    ELSE LET parsed == JSONparse(SliceFrom(lines[i], 6))
         IN IF ~parsed.ok THEN ProcessLinesNoReturn(st, lines, i + 1)
            ELSE ProcessLinesNoReturn(Dispatch(st, parsed.value), lines, i + 1)

\* for (const line of frame.split("\n")) { ... }, from line i on
RECURSIVE ProcessLines(_, _, _)
ProcessLines(st, lines, i) ==
    IF i > Len(lines) THEN st
    ELSE IF ~StartsWith(lines[i], DataPrefix) THEN ProcessLines(st, lines, i + 1)
    ELSE LET parsed == JSONparse(SliceFrom(lines[i], 6))
         IN IF ~parsed.ok THEN ProcessLines(st, lines, i + 1)
            ELSE LET isDone == parsed.value.type = "done"
                     after == Dispatch(st, parsed.value)
                 IN IF after.log[Len(after.log)].threw
                    THEN ProcessLines(skipMalformed(after), lines, i + 1)
                    ELSE IF isDone THEN [after EXCEPT !.returned = TRUE]
                    ELSE ProcessLines(after, lines, i + 1)

\* "if" in the place of "while": one frame for each chunk
ProcessFramesOnce(st) ==
    LET pos == IndexOfDelimiter(st.buffer)
    IN IF pos = -1 THEN st
       ELSE LET frame == Slice(st.buffer, 0, pos)
                cut == [st EXCEPT !.buffer = SliceFrom(st.buffer, pos + 2),
                                  !.frames = Append(@, frame)]
            IN ProcessLines(cut, Split(frame), 1)

\* while ((pos = buffer.indexOf("\n\n")) !== -1) { ... }
RECURSIVE ProcessFrames(_)
ProcessFrames(st) ==
    LET pos == IndexOfDelimiter(st.buffer)
    IN IF pos = -1 THEN st
       ELSE LET frame == Slice(st.buffer, 0, pos)
                cut == [st EXCEPT !.buffer = SliceFrom(st.buffer, pos + 2),
                                  !.frames = Append(@, frame)]
                after == ProcessLines(cut, Split(frame), 1)
            IN IF after.returned THEN after ELSE ProcessFrames(after)

\* "buffer =" in the place of "buffer +=": the chunk replaces the buffer
ProcessChunkReplace(st, held, value) ==
    LET d == DecodeStream(held, value)
    IN [st |-> ProcessFrames([st EXCEPT !.buffer = d.text]), d |-> d]

\* one turn of the read loop on a chunk: decode, append, process the complete frames
ProcessChunk(st, held, value) ==
    LET d == DecodeStream(held, value)
    IN [st |-> ProcessFrames([st EXCEPT !.buffer = @ \o d.text]), d |-> d]

\* s.endsWith("\n")
EndsWithNewline(s) == s # <<>> /\ s[Len(s)] = NL

Decoding ==
    [buffer |-> buffer, frames |-> frames, log |-> log, handled |-> handled,
     status |-> status, returned |-> FALSE]

\* const { done, value } = await reader.read() with done false, and the loop body
ReadChunk ==
    /\ pc = "reading"
    /\ \E n \in 1..Len(pending) :
         \E r \in {ProcessChunk(Decoding, carry, SubSeq(pending, 1, n))} :
            /\ pending' = SubSeq(pending, n + 1, Len(pending))
            /\ received' = received \o SubSeq(pending, 1, n)
            /\ straddled' = (straddled \/ (EndsWithNewline(buffer) /\ r.d.text # <<>>
                                                 /\ Head(r.d.text) = NL))
            /\ carry' = r.d.carry
            /\ buffer' = r.st.buffer
            /\ frames' = r.st.frames
            /\ log' = r.st.log
            /\ handled' = r.st.handled
            /\ status' = r.st.status
            /\ pc' = IF r.st.returned THEN "done" ELSE "reading"
    /\ UNCHANGED <<lastCall, before>>
    /\ UNCHANGED <<tuiVars, command>>

\* a decoder that treats the end of the stream as a delimiter
CloseFlush ==
    /\ pc = "reading"
    /\ \E r \in {ProcessFrames([Decoding EXCEPT !.buffer = @ \o <<NL, NL>>])} :
         /\ buffer' = r.buffer
         /\ frames' = r.frames
         /\ log' = r.log
         /\ handled' = r.handled
         /\ status' = r.status
    /\ pc' = "eof"
    /\ pending' = <<>>
    /\ UNCHANGED <<lastCall, before, received, straddled, carry>>
    /\ UNCHANGED <<tuiVars, command>>

\* reader.read() with done true: the remote closed the stream, what it had not sent is lost
Close ==
    /\ pc = "reading"
    /\ pc' = "eof"
    /\ pending' = <<>>
    /\ UNCHANGED <<status, lastCall, before, received, straddled, carry, buffer, frames, log, handled>>
    /\ UNCHANGED <<tuiVars, command>>

\* chatStream throws (the response is not ok, or reader.read() rejects) and the
\* catch of chatOneShotCommand runs: status.finish()
OneShotCatch ==
    /\ pc = "reading"
    /\ pc' = "caught-oneshot"
    /\ status' = finish(status)
    /\ pending' = <<>>
    /\ UNCHANGED <<lastCall, before, received, straddled, carry, buffer, frames, log, handled>>
    /\ UNCHANGED <<tuiVars, command>>

\* chatStream throws and the catch of chatReplCommand runs: the tracker, declared
\* inside the try block, is out of scope and is left as it is
ReplCatch ==
    /\ pc = "reading"
    /\ pc' = "caught-repl"
    /\ pending' = <<>>
    /\ UNCHANGED <<status, lastCall, before, received, straddled, carry, buffer, frames, log, handled>>
    /\ UNCHANGED <<tuiVars, command>>

InitChat ==
    /\ InitTracker
    /\ pending \in Streams
    /\ received = <<>>
    /\ straddled = FALSE
    /\ carry = <<>>
    /\ buffer = <<>>
    /\ frames = <<>>
    /\ log = <<>>
    /\ handled = 0
    /\ pc = "reading"
    /\ NoSession
    /\ command = NoCommand

NextChat ==
    \/ ReadChunk
    \/ Close
    \/ OneShotCatch
    \/ ReplCatch

SpecChat == InitChat /\ [][NextChat]_vars


-----------------------------------------------------------------------------
(* The frame payload as the wire format defines it, computed as the push   *)
(* listener of commands/modules.ts computes it                             *)

\* the fragments of the data lines of a frame, in order
DataLines(frame) ==
    LET sel == SelectSeq(Split(frame), LAMBDA l : StartsWith(l, DataPrefix))
    IN [i \in 1..Len(sel) |-> SliceFrom(sel[i], 6)]

\* JSON.parse(dataLines.join("\n"))
FramePayload(frame) == JSONparse(Join(DataLines(frame)))

-----------------------------------------------------------------------------
(* Properties of the chat stream decoder (SpecChat)                        *)

FreshDecoding ==
    [buffer |-> <<>>, frames |-> <<>>, log |-> <<>>, handled |-> 0,
     status |-> NewTracker, returned |-> FALSE]

EventsOf(l) == [i \in 1..Len(l) |-> l[i].event]

\* number of events dispatched from frame number f
DispatchedFor(f) == Cardinality({i \in 1..Len(log) : log[i].frame = f})

WellFormed(frame) == FramePayload(frame).ok

WithDelimiters(fs) == Concat([i \in 1..Len(fs) |-> fs[i] \o <<NL, NL>>])

\* C1: split-invariance.  However the bytes received so far were cut into
\* chunks, the frames cut, the events dispatched and the buffer left are
\* those of decoding the same bytes delivered as one chunk.
C1_SplitInvariance ==
    received # <<>> =>
        LET whole == ProcessChunk(FreshDecoding, <<>>, received).st
        IN /\ frames = whole.frames
           /\ log = whole.log
           /\ buffer = whole.buffer

\* C1 witness: a delimiter was split across two chunks, frames were cut and
\* an event was dispatched.
C1_Witness == straddled /\ Len(frames) >= 2 /\ log # <<>>

\* C2: a done event is the last event dispatched, and chatStream has
\* returned once it is dispatched.
C2_NothingAfterDone ==
    \A i \in 1..Len(log) :
        log[i].event.type = "done" => (i = Len(log) /\ pc = "done")

\* C2 witness: chatStream returned on done while a complete text frame was
\* already in the buffer.
C2_Witness ==
    /\ pc = "done"
    /\ buffer = DataPrefix \o JsonText \o <<NL, NL>>
    /\ log[Len(log)].event.type = "done"

\* C3 (as claimed): every frame whose data lines, joined, parse as one JSON
\* value dispatches exactly one event, and every other frame dispatches none.
C3_OneEventPerWellFormedFrame ==
    \A f \in 1..Len(frames) :
        DispatchedFor(f) = IF WellFormed(frames[f]) THEN 1 ELSE 0

C5_MalformedFrameDispatchesNothing ==
    \A f \in 1..Len(frames) :
        ~WellFormed(frames[f]) => DispatchedFor(f) = 0

\* C6: buffer conservation.  Before a done event the buffer holds no
\* delimiter, and the frames cut so far, each followed by its delimiter,
\* followed by the buffer are exactly the characters of the bytes received.
C6_BufferConservation ==
    pc # "done" =>
        /\ IndexOfDelimiter(buffer) = -1
        /\ WithDelimiters(frames) \o buffer = Decode(<<>>, received).text

\* C6 witness: frames were cut and an incomplete frame is waiting in the
\* buffer for more bytes.
C6_Witness == pc = "reading" /\ frames # <<>> /\ buffer # <<>> /\ pending # <<>>

\* C7: when the remote closes the stream, chatStream returns without
\* dispatching anything and without touching the tracker, whatever the
\* buffer holds.
C7_RemainderDiscarded ==
    [][(pc = "reading" /\ pc' = "eof") =>
          (log' = log /\ handled' = handled /\ status' = status)]_vars

\* C7 witness: the stream was closed while the buffer held a complete data
\* line with valid JSON that no delimiter followed; nothing was dispatched.
C7_Witness ==
    /\ pc = "eof"
    /\ buffer = DataPrefix \o JsonDone
    /\ log = <<>>

\* C8: events are handled in frame order.  The event of an earlier frame is
\* dispatched before the event of a later frame, and its handler has
\* completed when the later one is dispatched.
C8_FrameOrder ==
    \A i, j \in 1..Len(log) :
        log[i].frame < log[j].frame => (i < j /\ log[j].seen >= i)

\* C8 witness: events of two different frames were dispatched.
C8_Witness == \E i, j \in 1..Len(log) : log[i].frame < log[j].frame

-----------------------------------------------------------------------------
(* Properties of the StatusTracker (SpecStatus)                            *)

NoDuplicates(arr) == \A i, j \in 1..Len(arr) : arr[i] = arr[j] => i = j

IsEvent(type) == lastCall.op = "handleEvent" /\ lastCall.event.type = type

ToolName == Nullish(lastCall.event.tool_name, "unknown")

\* C9: the active tools never hold a name twice; a tool_call for an active
\* name leaves the sequence as it was and a new name is appended at the end.
C9_ToolsUnique ==
    /\ NoDuplicates(status.activeTools)
    /\ IsEvent("tool_call") =>
          status.activeTools =
              IF Includes(before.activeTools, ToolName) THEN before.activeTools
              ELSE Append(before.activeTools, ToolName)

\* C9 witness: a tool_call arrived for the first of two active tools.
C9_Witness ==
    /\ IsEvent("tool_call")
    /\ Len(before.activeTools) = 2
    /\ before.activeTools[1] = ToolName

\* C10: a tool_result for a name that is not active changes neither the
\* active tools, nor the active sub-agents, nor the current subtype.
C10_RemoveAbsentTool ==
    (IsEvent("tool_result") /\ ~Includes(before.activeTools, ToolName)) =>
        /\ status.activeTools = before.activeTools
        /\ status.activeSubagents = before.activeSubagents
        /\ status.activeSubtype = before.activeSubtype

\* C10 witness: a tool_result arrived for an inactive name while another
\* tool, a sub-agent and a subtype were active.
C10_Witness ==
    /\ IsEvent("tool_result")
    /\ ~Includes(before.activeTools, ToolName)
    /\ before.activeTools # <<>>
    /\ before.activeSubagents # <<>>
    /\ before.activeSubtype # ""

\* the state finish() is to leave: nothing tracked, not paused, line hidden
Finished(tr) ==
    /\ tr.activeTools = <<>>
    /\ tr.activeSubagents = <<>>
    /\ tr.activeSubtype = ""
    /\ ~tr.paused
    /\ ~tr.isSpinning

\* C11: after finish() the active tools and sub-agents are empty, the
\* subtype is empty, the pause flag is false and the status line is hidden,
\* and a second finish() changes nothing.
C11_FinishClears ==
    lastCall.op = "finish" => (Finished(status) /\ finish(status) = status)

\* C11 witness: finish() was called on a paused tracker with a tool, a
\* sub-agent and a subtype active.
C11_Witness ==
    /\ lastCall.op = "finish"
    /\ before.paused
    /\ before.activeTools # <<>>
    /\ before.activeSubagents # <<>>
    /\ before.activeSubtype # ""

\* C13: while the tracker is paused the status line is not visible.
C13_HiddenWhilePaused == status.paused => ~status.isSpinning

\* C13 witness: a thinking event was handled by a paused tracker that has an
\* active tool, and the tracker is still paused.
C13_Witness ==
    /\ IsEvent("thinking")
    /\ before.paused
    /\ status.paused
    /\ status.activeTools # <<>>

\* C14: pauseForText followed by resumeAfterText leaves the line hidden when
\* no tool and no sub-agent is active, visible when a tool is active, and
\* keeps the tools, the sub-agents and the subtype.
C14_PauseResume ==
    LET r == resumeAfterText(pauseForText(status))
    IN /\ (status.activeTools = <<>> /\ status.activeSubagents = <<>>) => ~r.isSpinning
       /\ status.activeTools # <<>> => r.isSpinning
       /\ r.activeTools = status.activeTools
       /\ r.activeSubagents = status.activeSubagents
       /\ r.activeSubtype = status.activeSubtype
       /\ (lastCall.op = "resumeAfterText" /\ before.paused) =>
             (status.isSpinning <=> (status.activeTools # <<>> \/ status.activeSubagents # <<>>))

\* C14 witness: resumeAfterText was called on a paused tracker with an
\* active tool and the line is visible again.
C14_Witness ==
    /\ lastCall.op = "resumeAfterText"
    /\ before.paused
    /\ ~before.isSpinning
    /\ status.activeTools # <<>>
    /\ status.isSpinning

NothingActive(tr) == tr.activeTools = <<>> /\ tr.activeSubagents = <<>>

\* C15 (as claimed): a tool_result leaves its name inactive, and an event
\* that leaves no tool and no sub-agent active on a tracker that is not
\* paused leaves the status line hidden.
C15_HiddenWhenIdle ==
    /\ IsEvent("tool_result") => ~Includes(status.activeTools, ToolName)
    /\ (lastCall.op = "handleEvent" /\ NothingActive(status) /\ ~status.paused)
          => ~status.isSpinning

\* the events whose handling ends in updateSpinner, resumeAfterText or finish
RenderingKinds ==
    {"tool_call", "tool_result", "subagent_spawned", "subagent_completed",
     "subagent_failed", "subtype_change", "task_completed", "text", "done"}

\* C15 (amended): a tool_result leaves its name inactive, and a tool_call,
\* tool_result, sub-agent, subtype_change, task_completed, text or done
\* event that leaves no tool and no sub-agent active on a tracker that is
\* not paused leaves the status line hidden; a thinking event, and a
\* task_started event with a name, show the line on a tracker that is not
\* paused although nothing is active.
C15_HiddenAfterRendering ==
    /\ IsEvent("tool_result") => ~Includes(status.activeTools, ToolName)
    /\ (lastCall.op = "handleEvent" /\ lastCall.event.type \in RenderingKinds
            /\ NothingActive(status) /\ ~status.paused)
          => ~status.isSpinning
    /\ ((IsEvent("thinking") \/ (IsEvent("task_started") /\ Truthy(lastCall.event.task_name)))
            /\ ~status.paused)
          => status.isSpinning

\* C15 witness: the tool_result of the only active tool arrived while the
\* line was visible, and the line is hidden.
C15_Witness ==
    /\ IsEvent("tool_result")
    /\ before.activeTools = <<ToolName>>
    /\ before.isSpinning
    /\ NothingActive(status)
    /\ ~status.isSpinning

HasLabel(m, label) == \E i \in 1..Len(m) : m[i].label = label

\* C16: subagent_completed and subagent_failed for a label lead to the same
\* tracker state, in which the label is not an active sub-agent.
C16_CompletedAsFailed ==
    /\ \A l \in {"alpha", UNDEF} :
          LET c == handleEvent(status, SseEvent("subagent_completed", UNDEF, UNDEF, l, UNDEF, UNDEF))
              f == handleEvent(status, SseEvent("subagent_failed", UNDEF, UNDEF, l, UNDEF, UNDEF))
          IN c = f /\ ~HasLabel(c.tr.activeSubagents, Nullish(l, "?"))
    /\ (IsEvent("subagent_completed") \/ IsEvent("subagent_failed")) =>
          ~HasLabel(status.activeSubagents, Nullish(lastCall.event.label, "?"))

\* C16 witness: a subagent_failed event arrived for one of two active
\* sub-agents.
C16_Witness ==
    /\ IsEvent("subagent_failed")
    /\ Len(before.activeSubagents) = 2
    /\ HasLabel(before.activeSubagents, Nullish(lastCall.event.label, "?"))
    /\ Len(status.activeSubagents) = 1

-----------------------------------------------------------------------------
(* The interactive sessions: modulesConnectCommand (commands/modules.ts,    *)
(* cmd "connect") and dashboardCommand (commands/dashboard.ts, cmd         *)
(* "dashboard").  A handler that awaits is a task: it is suspended at the  *)
(* await, and every other callback may run before it resumes.              *)

\* the handlers in flight are at most MaxTasks, the key presses at most MaxKeys
MaxTasks == 2
MaxKeys == 2

\* the number of rows of a page
PageRows == 20

\* the key codes of the fixed keys
CtrlC == "\\x03"
Esc == "\\x1b"
EscEsc == "\\x1b\\x1b"
ArrowUp == "\\x1b[A"
ArrowDown == "\\x1b[B"
PageUp == "\\x1b[5~"
PageDown == "\\x1b[6~"

\* interface ActionDef
ActionDef(key, label, action, confirm, prompts) ==
    [key |-> key, label |-> label, action |-> action, confirm |-> confirm, prompts |-> prompts]

\* the action sets the server declares
AddAction == ActionDef("a", "Add", "add", FALSE, <<"name", "value">>)
DeleteAction == ActionDef("d", "Delete", "delete", TRUE, <<>>)
RenameAction == ActionDef("r", "Rename", "rename", TRUE, <<"name">>)
\* actions the server binds to the keys q, Escape and Arrow Down
QueueAction == ActionDef("q", "Queue", "queue", FALSE, <<>>)
BackAction == ActionDef(Esc, "Back", "back", FALSE, <<>>)
LowerAction == ActionDef(ArrowDown, "Lower", "lower", FALSE, <<>>)
ActionsA == <<AddAction, DeleteAction, QueueAction, BackAction, LowerAction>>
\* a second action on the key of the rename action
RetryAction == ActionDef("r", "Retry", "retry", FALSE, <<>>)
ActionsB == <<RetryAction, RenameAction>>

\* a fetched or pushed frame: the screen content and, optionally, an action set
Frame(hasActions, actions) == [hasActions |-> hasActions, actions |-> actions]
Frames == {Frame(FALSE, <<>>), Frame(TRUE, ActionsA), Frame(TRUE, ActionsB)}

\* keyMap.clear(); for (const a of actions) keyMap.set(a.key, a)
KeyMapOf(actions) ==
    [k \in {actions[i].key : i \in 1..Len(actions)} |->
        LET last == CHOOSE i \in 1..Len(actions) :
                        /\ actions[i].key = k
                        /\ \A j \in 1..Len(actions) : actions[j].key = k => j <= i
        IN actions[last]]

\* the key presses of the model
Keys == {"q", CtrlC, Esc, ArrowUp, ArrowDown, PageUp, PageDown, "a", "d", "r", "z"}

\* the replies typed to a prompt and to a confirmation question
Answers == {"u", "v"}
ConfirmAnswers == {"y", "Y", "n", "", "yes"}

\* the reply typed to a prompt: the handler never looks at a reply, it only
\* stores it, so one text for each question is enough
Typed(prompt) == IF prompt = "name" THEN "u" ELSE "v"

\* answer.toLowerCase()
toLowerCase(a) ==
    CASE a = "Y"       -> "y"
      [] a = "Failed"  -> "failed"
      [] a = "CRASHED" -> "crashed"
      [] OTHER         -> a

\* the clamp at 0 left out
MaxUnclamped(a, b) == b

\* Math.max(a, b)
Max(a, b) == IF a >= b THEN a ELSE b

\* a handler suspended at an await: "render" (the frame fetch), "prompt" (the
\* question for prompts[idx]), "confirm", "post" (the submission), "flash" (the
\* 1500 ms the inline error stays)
Task(at, actionDef, hasInputs, inputs, replies) ==
    [at |-> at, actionDef |-> actionDef, hasInputs |-> hasInputs, inputs |-> inputs,
     replies |-> replies]
NoAction == ActionDef("", "", "", FALSE, <<>>)
RenderTask == Task("render", NoAction, FALSE, <<>>, <<>>)

\* the tasks without task i
Without(ts, i) == SubSeq(ts, 1, i - 1) \o SubSeq(ts, i + 1, Len(ts))

\* what a handler reads and writes
Here ==
    [session |-> session, terminal |-> terminal, tasks |-> tasks, submitted |-> submitted,
     proc |-> proc]

\* const cleanup = () => { ... }: the running flag, the refresh timer (dashboard
\* only), setRawMode(false), removeAllListeners("data"), the clear-screen sequence
cleanup(h) ==
    [h EXCEPT !.session.running = FALSE,
              !.session.refreshTimer = IF h.session.cmd = "dashboard" THEN FALSE ELSE @,
              !.terminal.raw = FALSE,
              !.terminal.releases = @ + 1,
              !.terminal.listening = FALSE,
              !.terminal.screen = "cleared",
              !.terminal.printed = "none"]

\* sseAbort?.abort()
abort(h) ==
    [h EXCEPT !.session.sse = IF @ = "null" THEN @ ELSE "aborted"]

\* process.exit(code) left out: the callbacks in flight go on
exitSkipped(h, code) ==
    h

\* process.exit(code): the handlers in flight are gone
exit(h, code) ==
    [h EXCEPT !.proc = code, !.tasks = <<>>]

\* printError(msg), lib/ui.ts: the message is written to the terminal
printError(h) ==
    [h EXCEPT !.terminal.printed = "error"]

\* console.log(dim("Back to shell."))
printBack(h) ==
    [h EXCEPT !.terminal.printed = "back"]

\* the quit branch of the keypress handler
quit(h) ==
    IF h.session.cmd = "connect" THEN exit(printBack(abort(cleanup(h))), "exit0")
    ELSE exit(cleanup(h), "exit0")

\* the catch block of render with the message printed first: cleanup wipes it
renderFailedPrintFirst(h) ==
    exit(cleanup(printError(h)), "exit1")

\* the catch block of render: cleanup(); printError(err.message); process.exit(1)
renderFailed(h) ==
    exit(printError(cleanup(h)), "exit1")

\* postAction / gw.postTuiAction(moduleName, actionDef.action, { selected, scroll }, inputs):
\* the request is sent and task i awaits the result
post(h, i) ==
    LET t == h.tasks[i]
    IN [h EXCEPT !.tasks[i].at = "post",
                 !.submitted = Append(@, [action |-> t.actionDef.action,
                                          state |-> [selected |-> h.session.selected,
                                                     scroll |-> h.session.scroll],
                                          hasInputs |-> t.hasInputs,
                                          inputs |-> t.inputs,
                                          actionDef |-> t.actionDef,
                                          replies |-> t.replies])]

\* if (actionDef.confirm) { setRawMode(false); pause(); await promptUser(...) }
\* and, without confirm, the submission
afterPrompts(h, i) ==
    IF h.tasks[i].actionDef.confirm
    THEN [h EXCEPT !.tasks[i].at = "confirm",
                   !.terminal.raw = FALSE,
                   !.terminal.screen = "question"]
    ELSE post(h, i)

\* the action branch of the keypress handler up to its first await
startAction(h, actionDef) ==
    LET i == Len(h.tasks) + 1
    IN IF Len(actionDef.prompts) > 0
       THEN [h EXCEPT !.tasks = Append(@, Task("prompt", actionDef, TRUE, <<>>, <<>>)),
                      !.terminal.raw = FALSE,
                      !.terminal.screen = "question"]
       ELSE afterPrompts([h EXCEPT !.tasks = Append(@, Task("start", actionDef, FALSE, <<>>, <<>>))], i)

\* the cursor is adjusted and nothing is rendered
startRenderSkipped(h) ==
    h

\* await render(), up to the await of the frame fetch
startRender(h) ==
    [h EXCEPT !.tasks = Append(@, RenderTask)]

\* the keys of the quit branches
QuitKeys(cmd) ==
    IF cmd = "connect" THEN {CtrlC, "q", Esc, EscEsc} ELSE {CtrlC, "q"}

\* the navigation branches are guarded by meta.navigable in the dashboard only
Navigates(ss) == ss.cmd = "connect" \/ ss.navigable

\* a key without an action re-renders
dispatchOrRender(h, key) ==
    IF key \in DOMAIN h.session.keyMap THEN startAction(h, h.session.keyMap[key])
    ELSE startRender(h)

\* const actionDef = keyMap.get(key); if (actionDef) { ... }
dispatch(h, key) ==
    IF key \in DOMAIN h.session.keyMap THEN startAction(h, h.session.keyMap[key])
    ELSE h

\* process.stdin.on("data", async (key) => { ... }) up to its first await
keypress(h, key) ==
    LET ss == h.session
    IN IF ~ss.running THEN h
       ELSE IF key \in QuitKeys(ss.cmd) THEN quit(h)
       ELSE IF key = ArrowUp THEN
            IF Navigates(ss) /\ ss.selected > 0
            THEN startRender([h EXCEPT !.session.selected = @ - 1,
                                       !.session.scroll = IF ss.selected - 1 < @
                                                          THEN ss.selected - 1 ELSE @])
            ELSE h
       ELSE IF key = ArrowDown THEN
            IF Navigates(ss)
            THEN startRender([h EXCEPT !.session.selected = @ + 1,
                                       !.session.scroll = IF ss.selected + 1 >= @ + PageRows
                                                          THEN @ + 1 ELSE @])
            ELSE h
       ELSE IF key = PageUp THEN
            IF Navigates(ss)
            THEN startRender([h EXCEPT !.session.selected = Max(0, @ - PageRows),
                                       !.session.scroll = Max(0, @ - PageRows)])
            ELSE h
       ELSE IF key = PageDown THEN
            IF Navigates(ss)
            THEN startRender([h EXCEPT !.session.selected = @ + PageRows,
                                       !.session.scroll = @ + PageRows])
            ELSE h
       ELSE dispatch(h, key)

\* the fields of a handler's result become the next state
Becomes(h) ==
    /\ session' = h.session
    /\ terminal' = h.terminal
    /\ tasks' = h.tasks
    /\ submitted' = h.submitted
    /\ proc' = h.proc

\* a question is outstanding: promptUser has a readline interface open on stdin
Asking == \E i \in 1..Len(tasks) : tasks[i].at \in {"prompt", "confirm"}

\* a key press: in raw mode every key press is one chunk of stdin.  While a
\* question is outstanding the "data" listener stays attached and stdin flows
\* for readline, which reads a terminal key by key: a character typed at the
\* question reaches the handler too.
Keypress(key) ==
    /\ lastKey' = key
    /\ proc = "running"
    /\ terminal.listening
    /\ terminal.raw \/ Asking
    /\ pressed < MaxKeys
    /\ \E h \in {keypress(Here, key)} :
         /\ Len(h.tasks) <= MaxTasks
         /\ Becomes(h)
    /\ pressed' = pressed + 1
    /\ UNCHANGED <<trackerVars, chatVars>>

\* the question is answered and raw mode is left off
resumeCooked(h) ==
    h

\* process.stdin.setRawMode(true); process.stdin.resume()
resume(h) ==
    [h EXCEPT !.terminal.raw = TRUE]

\* inputs.unshift(answer): the answers in reverse order
answeredUnshift(h, i, answer) ==
    LET t == h.tasks[i]
        asked == t.actionDef.prompts[Len(t.inputs) + 1]
        more == Len(t.inputs) + 1 < Len(t.actionDef.prompts)
        got == [h EXCEPT !.tasks[i].inputs = <<answer>> \o @,
                         !.tasks[i].replies = Append(@, [prompt |-> asked, answer |-> answer])]
    IN IF more THEN got
       ELSE afterPrompts([got EXCEPT !.terminal.raw = TRUE], i)

\* const answer = await promptUser(prompt); inputs.push(answer); and, after the
\* last prompt, setRawMode(true), resume() and what follows up to the next await
answered(h, i, answer) ==
    LET t == h.tasks[i]
        asked == t.actionDef.prompts[Len(t.inputs) + 1]
        more == Len(t.inputs) + 1 < Len(t.actionDef.prompts)
        got == [h EXCEPT !.tasks[i].inputs = Append(@, answer),
                         !.tasks[i].replies = Append(@, [prompt |-> asked, answer |-> answer])]
    IN IF more THEN got
       ELSE afterPrompts(resume(got), i)

\* the user answers the question of task i's current prompt
PromptAnswer(i, answer) ==
    /\ lastKey' = "none"
    /\ proc = "running"
    /\ i \in 1..Len(tasks)
    /\ tasks[i].at = "prompt"
    /\ answer = Typed(tasks[i].actionDef.prompts[Len(tasks[i].inputs) + 1])
    /\ Becomes(answered(Here, i, answer))
    /\ UNCHANGED <<trackerVars, chatVars, pressed>>

\* the answer to the confirmation question is not looked at: always the submission
confirmedAlways(h, i, answer) ==
    post([h EXCEPT !.terminal.raw = TRUE], i)

\* the answer to the confirmation question: raw mode again, and the submission
\* only for "y"
confirmed(h, i, answer) ==
    LET back == resume(h)
    IN IF toLowerCase(answer) # "y"
       THEN [back EXCEPT !.tasks[i].at = "render"]
       ELSE post(back, i)

\* the user answers the confirmation question of task i
ConfirmAnswer(i, answer) ==
    /\ lastKey' = "none"
    /\ proc = "running"
    /\ i \in 1..Len(tasks)
    /\ tasks[i].at = "confirm"
    /\ Becomes(confirmed(Here, i, answer))
    /\ UNCHANGED <<trackerVars, chatVars, pressed>>

\* interface ActionResult: the results of a submission
ActionResults ==
    {[ok |-> TRUE, error |-> UNDEF], [ok |-> FALSE, error |-> "HTTP 500"],
     [ok |-> FALSE, error |-> UNDEF]}

\* the submission of task i resolves and the result is not looked at: the render
PostResolveSilent(i, result) ==
    /\ lastKey' = "none"
    /\ proc = "running"
    /\ i \in 1..Len(tasks)
    /\ tasks[i].at = "post"
    /\ tasks' = [tasks EXCEPT ![i].at = "render"]
    /\ UNCHANGED <<trackerVars, chatVars, session, terminal, proc, submitted, pressed>>

\* the submission of task i resolves: the inline error, or the render
PostResolve(i, result) ==
    /\ lastKey' = "none"
    /\ proc = "running"
    /\ i \in 1..Len(tasks)
    /\ tasks[i].at = "post"
    /\ IF ~result.ok /\ Truthy(result.error)
       THEN /\ tasks' = [tasks EXCEPT ![i].at = "flash"]
            /\ terminal' = [terminal EXCEPT !.screen = "error"]
       ELSE /\ tasks' = [tasks EXCEPT ![i].at = "render"]
            /\ terminal' = terminal
    /\ UNCHANGED <<trackerVars, chatVars, session, proc, submitted, pressed>>

\* the submission of task i rejects (fetch fails at the connection level): the
\* handler has no catch, the rejection is unhandled and ends the process
PostReject(i) ==
    /\ lastKey' = "none"
    /\ proc = "running"
    /\ i \in 1..Len(tasks)
    /\ tasks[i].at = "post"
    /\ proc' = "crashed"
    /\ tasks' = <<>>
    /\ UNCHANGED <<trackerVars, chatVars, session, terminal, submitted, pressed>>

\* the 1500 ms of the inline error are over
FlashDone(i) ==
    /\ lastKey' = "none"
    /\ proc = "running"
    /\ i \in 1..Len(tasks)
    /\ tasks[i].at = "flash"
    /\ tasks' = [tasks EXCEPT ![i].at = "render"]
    /\ UNCHANGED <<trackerVars, chatVars, session, terminal, proc, submitted, pressed>>

\* the frame fetch resolves and the actions of the frame are set without
\* keyMap.clear(): the entries of the earlier action set stay
RenderResolveMerge(i, frame) ==
    /\ lastKey' = "none"
    /\ proc \in {"initializing", "running"}
    /\ i \in 1..Len(tasks)
    /\ tasks[i].at = "render"
    /\ session.cmd = "dashboard" => ~frame.hasActions
    /\ tasks' = Without(tasks, i)
    /\ terminal' = [terminal EXCEPT !.screen = "frame",
                                    !.listening = IF proc = "initializing" THEN TRUE ELSE @]
    /\ session' = [session EXCEPT
         !.keyMap = IF session.cmd = "connect" /\ frame.hasActions
                    THEN [k \in DOMAIN @ \cup DOMAIN KeyMapOf(frame.actions) |->
                            IF k \in DOMAIN KeyMapOf(frame.actions)
                            THEN KeyMapOf(frame.actions)[k] ELSE @[k]]
                    ELSE @,
         !.refreshTimer = IF proc = "initializing" /\ session.cmd = "dashboard" THEN TRUE ELSE @,
         !.sse = IF proc = "initializing" /\ session.cmd = "connect" THEN "open" ELSE @]
    /\ proc' = "running"
    /\ UNCHANGED <<trackerVars, chatVars, submitted, pressed>>

\* the frame fetch of task i resolves (the dashboard fetches the screen text
\* only): the screen is replaced, in connect the key map too when the frame
\* carries actions; after the initial render the
\* command goes on to start the refresh timer (dashboard) or the push listener
\* (connect) and to attach the keypress handler
RenderResolve(i, frame) ==
    /\ lastKey' = "none"
    /\ proc \in {"initializing", "running"}
    /\ i \in 1..Len(tasks)
    /\ tasks[i].at = "render"
    /\ session.cmd = "dashboard" => ~frame.hasActions
    /\ tasks' = Without(tasks, i)
    /\ terminal' = [terminal EXCEPT !.screen = "frame",
                                    !.listening = IF proc = "initializing" THEN TRUE ELSE @]
    /\ session' = [session EXCEPT
         !.keyMap = IF session.cmd = "connect" /\ frame.hasActions
                    THEN KeyMapOf(frame.actions) ELSE @,
         !.refreshTimer = IF proc = "initializing" /\ session.cmd = "dashboard" THEN TRUE ELSE @,
         !.sse = IF proc = "initializing" /\ session.cmd = "connect" THEN "open" ELSE @]
    /\ proc' = "running"
    /\ UNCHANGED <<trackerVars, chatVars, submitted, pressed>>

\* the frame fetch of task i fails: the catch block of render
RenderReject(i) ==
    /\ lastKey' = "none"
    /\ proc \in {"initializing", "running"}
    /\ i \in 1..Len(tasks)
    /\ tasks[i].at = "render"
    /\ Becomes(renderFailed(Here))
    /\ UNCHANGED <<trackerVars, chatVars, pressed>>

\* setInterval(async () => { if (running) await render(); }, refreshMs)
TimerTick ==
    /\ lastKey' = "none"
    /\ proc = "running"
    /\ session.cmd = "dashboard"
    /\ session.refreshTimer
    /\ Len(tasks) < MaxTasks
    /\ tasks' = IF session.running THEN Append(tasks, RenderTask) ELSE tasks
    /\ UNCHANGED <<trackerVars, chatVars, session, terminal, proc, submitted, pressed>>

\* the push listener without skipFirst: the first tui_frame event is applied too
PushFrameNoSkip(frame, wellFormed) ==
    /\ lastKey' = "none"
    /\ proc = "running"
    /\ session.cmd = "connect"
    /\ session.sse = "open"
    /\ session.running
    /\ UNCHANGED <<tasks, pressed, proc, submitted, trackerVars, chatVars>>
    /\ IF wellFormed
       THEN /\ session' = [session EXCEPT !.skipFirst = FALSE,
                                          !.keyMap = IF frame.hasActions
                                                     THEN KeyMapOf(frame.actions) ELSE @]
            /\ terminal' = [terminal EXCEPT !.screen = "frame"]
       ELSE /\ session' = [session EXCEPT !.skipFirst = FALSE]
            /\ terminal' = terminal

\* the push listener reads a tui_frame event: the first one is skipped, a
\* malformed one too; any other replaces the screen and, with actions, the key map
PushFrame(frame, wellFormed) ==
    /\ lastKey' = "none"
    /\ proc = "running"
    /\ session.cmd = "connect"
    /\ session.sse = "open"
    /\ session.running
    /\ UNCHANGED <<tasks, pressed, proc, submitted, trackerVars, chatVars>>
    /\ IF session.skipFirst
       THEN /\ session' = [session EXCEPT !.skipFirst = FALSE]
            /\ terminal' = terminal
       ELSE IF wellFormed
       THEN /\ session' = [session EXCEPT !.keyMap = IF frame.hasActions
                                                     THEN KeyMapOf(frame.actions) ELSE @]
            /\ terminal' = [terminal EXCEPT !.screen = "frame"]
       ELSE UNCHANGED <<session, terminal>>

\* the end of the push connection is not caught: the rejection ends the process
PushEndRaises ==
    /\ lastKey' = "none"
    /\ proc = "running"
    /\ session.cmd = "connect"
    /\ session.sse = "open"
    /\ session' = [session EXCEPT !.sse = "closed"]
    /\ proc' = "crashed"
    /\ tasks' = <<>>
    /\ UNCHANGED <<trackerVars, chatVars, terminal, submitted, pressed>>

\* the push connection is refused, is closed by the remote or fails: the
\* listener ends
PushEnd ==
    /\ lastKey' = "none"
    /\ proc = "running"
    /\ session.cmd = "connect"
    /\ session.sse = "open"
    /\ session' = [session EXCEPT !.sse = "closed"]
    /\ UNCHANGED <<trackerVars, chatVars, terminal, tasks, proc, submitted, pressed>>

\* interface ActionsMetadata: what fetchActions returns, the last one on a
\* non-success status
Metadata ==
    {[navigable |-> TRUE, actions |-> ActionsA], [navigable |-> FALSE, actions |-> ActionsA],
     [navigable |-> FALSE, actions |-> <<>>]}

\* the session when raw mode is on and the initial render awaits its frame
InitTui ==
    /\ InitTracker
    /\ pending = <<>>
    /\ received = <<>>
    /\ straddled = FALSE
    /\ carry = <<>>
    /\ buffer = <<>>
    /\ frames = <<>>
    /\ log = <<>>
    /\ handled = 0
    /\ pc = "idle"
    /\ \E cmd \in {"connect", "dashboard"} :
       \E meta \in Metadata :
         /\ cmd = "connect" => meta = [navigable |-> FALSE, actions |-> <<>>]
         /\ session = [cmd |-> cmd, selected |-> 0, scroll |-> 0, running |-> TRUE,
                       keyMap |-> KeyMapOf(meta.actions), navigable |-> meta.navigable,
                       refreshTimer |-> FALSE, sse |-> "null", skipFirst |-> TRUE]
    /\ terminal = [raw |-> TRUE, listening |-> FALSE, screen |-> "blank", printed |-> "none", releases |-> 0]
    /\ tasks = <<RenderTask>>
    /\ proc = "initializing"
    /\ submitted = <<>>
    /\ pressed = 0
    /\ lastKey = "none"
    /\ command = NoCommand

NextTui ==
    \/ \E key \in Keys : Keypress(key)
    \/ \E i \in 1..MaxTasks : \E answer \in Answers : PromptAnswer(i, answer)
    \/ \E i \in 1..MaxTasks : \E answer \in ConfirmAnswers : ConfirmAnswer(i, answer)
    \/ \E i \in 1..MaxTasks : \E result \in ActionResults : PostResolve(i, result)
    \/ \E i \in 1..MaxTasks : PostReject(i)
    \/ \E i \in 1..MaxTasks : FlashDone(i)
    \/ \E i \in 1..MaxTasks : \E frame \in Frames : RenderResolve(i, frame)
    \/ \E i \in 1..MaxTasks : RenderReject(i)
    \/ TimerTick
    \/ \E frame \in Frames : \E wellFormed \in BOOLEAN : PushFrame(frame, wellFormed)
    \/ PushEnd

SpecTui == InitTui /\ [][NextTui]_vars

\* the chat stream has ended: chatStream returned or threw
StreamEnded == pc \in {"done", "eof", "caught-oneshot", "caught-repl"}

\* C12: whenever a chat stream ends (done event, remote close without done, or
\* error), the tracker used for it is finished, in one-shot and in REPL mode.
C12_FinishedWhenStreamEnds == StreamEnded => Finished(status)

-----------------------------------------------------------------------------
(* The interactive session: termination                                    *)

\* the session is Terminated: cleanup has run and the process has exited
Terminated == proc \in {"exit0", "exit1"}

\* the process is over, by process.exit or by an unhandled rejection
Exited == proc \in {"exit0", "exit1", "crashed"}

\* C17: on termination raw mode is released exactly once, and a second
\* invocation of cleanup in the Terminated state performs no further release and
\* changes nothing.
C17_ReleasedOnceAndIdempotent ==
    Terminated => /\ terminal.releases = 1
                  /\ cleanup(Here) = Here

\* C18: every path into Terminated has performed all cleanup steps when the
\* process exits: raw mode released, refresh timer cancelled, push connection
\* aborted, keystroke listeners removed, screen cleared.
C18_AllCleanupSteps ==
    Terminated => /\ ~terminal.raw
                  /\ ~session.refreshTimer
                  /\ session.sse # "open"
                  /\ ~terminal.listening
                  /\ terminal.screen = "cleared"

\* C19: on every way the session can end, an uncaught failure in a handler
\* included, raw mode is off when the process exits.
C19_RawRestoredAtExit == Exited => ~terminal.raw

\* C20: every submission of an action with n prompts was sent after n replies
\* had been collected and carries exactly n answers, the i-th answer being the
\* reply to the i-th declared prompt.
C20_AnswersInPromptOrder ==
    \A k \in 1..Len(submitted) :
        LET s == submitted[k]
            n == Len(s.actionDef.prompts)
        IN /\ Len(s.replies) = n
           /\ Len(s.inputs) = n
           /\ n > 0 => s.hasInputs
           /\ \A i \in 1..n : /\ s.replies[i].prompt = s.actionDef.prompts[i]
                              /\ s.inputs[i] = s.replies[i].answer

\* C20 witness: the two-prompt action was submitted with two different answers.
C20_Witness ==
    \E k \in 1..Len(submitted) :
        /\ submitted[k].actionDef = AddAction
        /\ submitted[k].inputs = <<"u", "v">>

-----------------------------------------------------------------------------
(* The interactive session: action dispatch                                *)

\* the answer the code takes as affirmative: "y" in either case
Affirmative(answer) == toLowerCase(answer) = "y"

\* C21: a confirmation answer other than an affirmative "y" sends no
\* submission: the handler drops the action with the answers it collected and
\* goes to the re-render; a handler leaves the confirmation question for the
\* submission only on an affirmative answer.
C21_CancelledWithoutSubmission ==
    [][\A i \in 1..MaxTasks :
          /\ \A answer \in ConfirmAnswers :
                (ConfirmAnswer(i, answer) /\ ~Affirmative(answer))
                    => /\ submitted' = submitted
                       /\ tasks' = [tasks EXCEPT ![i].at = "render"]
          /\ (i <= Len(tasks) /\ Len(tasks') = Len(tasks)
                /\ tasks[i].at = "confirm" /\ tasks'[i].at = "post")
                    => \E answer \in ConfirmAnswers : Affirmative(answer) /\ ConfirmAnswer(i, answer)]_vars

\* C21 witness: the rename action, its prompt answered, was cancelled at the
\* confirmation question: its handler awaits the re-render, nothing was submitted.
C21_Witness ==
    /\ submitted = <<>>
    /\ \E i \in 1..Len(tasks) :
          /\ tasks[i].at = "render"
          /\ tasks[i].actionDef = RenameAction
          /\ Len(tasks[i].inputs) = 1

\* the handler of the key press has dispatched an action: a new handler in
\* flight that carries an action definition
Dispatched ==
    /\ Len(tasks') > Len(tasks)
    /\ tasks'[Len(tasks')].actionDef # NoAction

\* the quit keys and the navigation keys of the specification
SpecQuitKeys == {"q", CtrlC, Esc}
NavigationKeys == {ArrowUp, ArrowDown, PageUp, PageDown}
FixedKeys == SpecQuitKeys \cup NavigationKeys

\* C22: in every interactive controller each of q, Ctrl-C and Escape pressed
\* while the session is running terminates it, and no press of a quit key or of
\* a navigation key dispatches an action the server bound to that key.
C22_QuitKeysTerminate ==
    [][/\ \A key \in SpecQuitKeys : Keypress(key) => proc' \in {"exit0", "exit1"}
       /\ \A key \in SpecQuitKeys \cup NavigationKeys : Keypress(key) => ~Dispatched]_vars

\* C23: pressing a key that is no fixed key and is not in the key map, while
\* navigable is false, changes neither the cursor, the key map nor the running
\* flag, and starts no render and no submission.
C23_UnmappedKeyNoEffect ==
    [][\A key \in Keys \ FixedKeys :
          (Keypress(key) /\ key \notin DOMAIN session.keyMap /\ ~session.navigable)
              => UNCHANGED <<session, terminal, tasks, submitted, proc>>]_vars

\* C23 witness: the last step handled a key that is no fixed key and has no
\* action, navigable being false: nothing is in flight, nothing was submitted.
C23_Witness ==
    /\ lastKey \in Keys \ FixedKeys
    /\ lastKey \notin DOMAIN session.keyMap
    /\ ~session.navigable
    /\ DOMAIN session.keyMap # {}
    /\ tasks = <<>>
    /\ submitted = <<>>
    /\ proc = "running"

\* C24: whenever a submission returns a result with ok false, the inline error
\* is shown and stays for the fixed delay, and the handler leaves the running
\* flag and raw mode as they are.
C24_ErrorShownWhenNotOk ==
    [][\A i \in 1..MaxTasks : \A result \in ActionResults :
          (PostResolve(i, result) /\ ~result.ok)
              => /\ tasks'[i].at = "flash"
                 /\ terminal'.screen = "error"
                 /\ session' = session
                 /\ terminal'.raw = terminal.raw]_vars

\* C24 as the code has it: a result with ok false and a non-empty error text
\* shows the inline error, which stays for the fixed delay before the handler
\* goes to the re-render; a result with ok false and no error text goes to the
\* re-render at once and shows nothing; in each of these steps the running flag
\* and raw mode are left as they are and the process goes on.
C24_ErrorShownWhenErrorText ==
    [][\A i \in 1..MaxTasks :
          /\ \A result \in ActionResults :
                (PostResolve(i, result) /\ ~result.ok)
                    => /\ session' = session
                       /\ terminal'.raw = terminal.raw
                       /\ proc' = "running"
                       /\ IF Truthy(result.error)
                          THEN tasks'[i].at = "flash" /\ terminal'.screen = "error"
                          ELSE tasks'[i].at = "render" /\ terminal' = terminal
          /\ FlashDone(i)
                => /\ tasks' = [tasks EXCEPT ![i].at = "render"]
                   /\ UNCHANGED <<session, terminal, proc>>]_vars

\* C24 witness: a handler waits out the delay of the inline error it has shown,
\* the session running and raw mode on.
C24_Witness ==
    /\ proc = "running"
    /\ session.running
    /\ terminal.raw
    /\ terminal.screen = "error"
    /\ \E i \in 1..Len(tasks) : tasks[i].at = "flash"

-----------------------------------------------------------------------------
(* The interactive session: frames                                         *)

\* the key map after the step is the one the frame defines: one entry for each
\* key of the frame's actions, each entry an action of the frame, nothing else;
\* without an action set, the key map of before
KeyMapFrom(frame) ==
    IF frame.hasActions
    THEN /\ DOMAIN session'.keyMap = {frame.actions[n].key : n \in 1..Len(frame.actions)}
         /\ \A k \in DOMAIN session'.keyMap :
               /\ session'.keyMap[k].key = k
               /\ \E n \in 1..Len(frame.actions) : frame.actions[n] = session'.keyMap[k]
    ELSE session'.keyMap = session.keyMap

\* C25: after any frame that is applied, fetched or pushed, the key map holds
\* exactly one entry per key of the frame's actions and no entry of an earlier
\* action set; a frame without an action set leaves the key map unchanged.
C25_KeyMapReplacedWholesale ==
    [][\A frame \in Frames :
          /\ \A i \in 1..MaxTasks : RenderResolve(i, frame) => KeyMapFrom(frame)
          /\ (PushFrame(frame, TRUE) /\ ~session.skipFirst) => KeyMapFrom(frame)]_vars

\* C25 witness: an action of the first action set was submitted, and a later
\* frame has replaced the key map by that of the second action set.
C25_Witness ==
    /\ session.cmd = "connect"
    /\ session.keyMap = KeyMapOf(ActionsB)
    /\ submitted # <<>>
    /\ submitted[1].actionDef = AddAction

\* C26: the push listener discards the first tui_frame event, and only that
\* one, without a screen write or a key-map change; every later well-formed
\* tui_frame event replaces the screen content and, when it carries actions,
\* the key map; a malformed one is skipped.
C26_FirstPushedFrameDiscarded ==
    [][/\ \A frame \in Frames : \A wellFormed \in BOOLEAN :
            PushFrame(frame, wellFormed)
                => /\ tasks' = tasks /\ proc' = proc /\ submitted' = submitted
                   /\ IF session.skipFirst
                      THEN /\ session' = [session EXCEPT !.skipFirst = FALSE]
                           /\ terminal' = terminal
                      ELSE IF wellFormed
                      THEN /\ terminal' = [terminal EXCEPT !.screen = "frame"]
                           /\ KeyMapFrom(frame)
                           /\ session' = [session EXCEPT !.keyMap = session'.keyMap]
                      ELSE UNCHANGED <<session, terminal>>
       /\ (session.cmd = "connect" /\ ~session.skipFirst) => ~session'.skipFirst]_vars

\* C26 witness: with one key pressed, the only handler in flight waits for the
\* answer to its confirmation question, and a pushed frame, not the first one,
\* has replaced the question on the screen.
C26_Witness ==
    /\ session.cmd = "connect"
    /\ ~session.skipFirst
    /\ pressed = 1
    /\ Len(tasks) = 1
    /\ tasks[1].at = "confirm"
    /\ terminal.screen = "frame"

\* C27: when the push connection is refused, closes or fails, the listener
\* stops without raising and without changing the running flag or raw mode:
\* the session goes on, its keypress handler attached, and keys are handled.
C27_PushEndIsQuiet ==
    /\ [][PushEnd => /\ session' = [session EXCEPT !.sse = "closed"]
                     /\ UNCHANGED <<terminal, tasks, proc, submitted>>]_vars
    /\ []((proc = "running" /\ session.sse = "closed")
             => /\ session.running
                /\ terminal.listening
                /\ (terminal.raw /\ pressed < MaxKeys /\ Len(tasks) < MaxTasks)
                       => ENABLED Keypress(ArrowDown))

\* C27 witness: the push connection has ended, and the last step handled the
\* key Arrow Down: the cursor has moved and the frame fetch is in flight.
C27_Witness ==
    /\ proc = "running"
    /\ session.sse = "closed"
    /\ lastKey = ArrowDown
    /\ session.selected = 1
    /\ \E i \in 1..Len(tasks) : tasks[i].at = "render"

\* ---------------------------------------------------------------------------
\* The chat command: chatOneShotCommand and the message path of
\* chatReplCommand (src/commands/chat.ts).  The stream is seen here from its
\* caller: chatStream returns, or it throws an error.
\* ---------------------------------------------------------------------------

\* The most messages typed into one REPL run.
MaxMessages == 2

\* The errors chatStream throws, by name; a message is the sequence of its
\* parts, absent when the thrown value carries no message.
Errors == {"unauthorized", "forbidden", "server", "nobody", "network", "bare"}

message(err) ==
    CASE err = "unauthorized" -> <<"HTTP 401", ": ", "Unauthorized">>
      [] err = "forbidden"    -> <<"HTTP 403", ": ", "Invalid gateway token">>
      [] err = "server"       -> <<"HTTP 500", ": ", "Internal Server Error">>
      [] err = "nobody"       -> <<"No response body">>
      [] err = "network"      -> <<"fetch failed">>
      [] OTHER                -> <<>>

\* isAuthError: the message includes "HTTP 401" or "Invalid gateway token".
isAuthError(err) ==
    \/ Includes(message(err), "HTTP 401")
    \/ Includes(message(err), "Invalid gateway token")

\* The ways tryRefreshToken ends: no stored JWT, getGatewayToken throws, the
\* new client's ping answers false, or the ping answers true.
RefreshOutcomes == {"no jwt", "rejected", "ping failed", "ok"}

\* tryRefreshToken returns a new client only when the ping answers true.
tryRefreshToken(outcome) == IF outcome = "ok" THEN "client" ELSE "null"

\* What the command has done: a message sent through a client, an error
\* caught, a refresh ended, a line printed.
Did(op, m, gw, arg) == [op |-> op, message |-> m, gw |-> gw, arg |-> arg]

Command(mode, at, m, gw, err, trace) ==
    [mode |-> mode, at |-> at, message |-> m, gw |-> gw, err |-> err, trace |-> trace]

notCommand == <<status, lastCall, before, pending, received, straddled, carry, buffer,
                frames, log, handled, pc, tuiVars>>

\* `starkbot chat <message>` sends its message at once; `starkbot chat`
\* opens the REPL and asks for a line.
InitAuth ==
    /\ InitTracker
    /\ pending = <<>>
    /\ received = <<>>
    /\ straddled = FALSE
    /\ carry = <<>>
    /\ buffer = <<>>
    /\ frames = <<>>
    /\ log = <<>>
    /\ handled = 0
    /\ pc = "idle"
    /\ NoSession
    /\ command \in { Command("oneshot", "sending", 1, 0, "none", <<Did("send", 1, 0, "first")>>),
                     Command("repl", "asking", 0, 0, "none", <<>>) }

\* The user types a message at the REPL prompt: it is sent with streaming.
Ask ==
    /\ command.mode = "repl"
    /\ command.at = "asking"
    /\ command.message < MaxMessages
    /\ command' = [command EXCEPT
                      !.at = "sending",
                      !.message = @ + 1,
                      !.trace = Append(@, Did("send", command.message + 1, command.gw, "first"))]
    /\ UNCHANGED notCommand

\* The user types /quit: the loop ends and the process exits with 0.
Quit ==
    /\ command.mode = "repl"
    /\ command.at = "asking"
    /\ command' = [command EXCEPT !.at = "exit0"]
    /\ UNCHANGED notCommand

\* chatStream returns: the one-shot command ends (after a retry with
\* `return`), the REPL asks for the next line.
StreamReturns ==
    /\ command.mode \in {"oneshot", "repl"}
    /\ command.at \in {"sending", "resending"}
    /\ command' = [command EXCEPT !.at = IF command.mode = "oneshot" THEN "exit0" ELSE "asking"]
    /\ UNCHANGED notCommand

\* The catch block of the first send.
StreamThrows(err) ==
    /\ command.mode \in {"oneshot", "repl"}
    /\ command.at = "sending"
    /\ LET m      == command.message
           caught == Append(command.trace, Did("throw", m, command.gw, err))
       IN  command' =
             IF isAuthError(err)
             THEN [command EXCEPT
                      !.at = "refreshing",
                      !.err = err,
                      !.trace = IF command.mode = "oneshot"
                                THEN Append(caught, Did("print", m, command.gw, "attempting to refresh"))
                                ELSE caught \o <<Did("print", m, command.gw, "error message"),
                                                 Did("print", m, command.gw, "attempting to refresh")>>]
             ELSE [command EXCEPT
                      !.at = IF command.mode = "oneshot" THEN "exit1" ELSE "asking",
                      !.trace = Append(caught, Did("print", m, command.gw, "error message"))]
    /\ UNCHANGED notCommand

\* tryRefreshToken has ended.  The one-shot command sends the message again
\* through the new client; the REPL keeps the new client and tells the user
\* to try again.
RefreshEnds(outcome) ==
    /\ command.mode \in {"oneshot", "repl"}
    /\ command.at = "refreshing"
    /\ LET m         == command.message
           refreshed == tryRefreshToken(outcome)
           tried     == Append(command.trace, Did("refresh", m, command.gw, refreshed))
       IN  command' =
             IF refreshed # "null"
             THEN IF command.mode = "oneshot"
                  THEN [command EXCEPT
                           !.at = "resending",
                           !.gw = @ + 1,
                           !.trace = Append(tried, Did("send", m, command.gw + 1, "retry"))]
                  ELSE [command EXCEPT
                           !.at = "asking",
                           !.gw = @ + 1,
                           !.trace = Append(tried, Did("print", m, command.gw + 1, "try your message again"))]
             ELSE IF command.mode = "oneshot"
                  THEN [command EXCEPT
                           !.at = "exit1",
                           !.trace = Append(tried, Did("print", m, command.gw, "could not refresh, run connect"))]
                  ELSE [command EXCEPT
                           !.at = "asking",
                           !.trace = Append(tried, Did("print", m, command.gw, "refresh failed, use /connect"))]
    /\ UNCHANGED notCommand

\* The catch block of the retry: the error is printed, nothing is refreshed.
RetryThrows(err) ==
    /\ command.mode = "oneshot"
    /\ command.at = "resending"
    /\ command' = [command EXCEPT
                      !.at = "exit1",
                      !.trace = @ \o <<Did("throw", command.message, command.gw, err),
                                       Did("print", command.message, command.gw, "error message")>>]
    /\ UNCHANGED notCommand

NextAuth ==
    \/ Ask
    \/ Quit
    \/ StreamReturns
    \/ \E err \in Errors : StreamThrows(err)
    \/ \E outcome \in RefreshOutcomes : RefreshEnds(outcome)
    \/ \E err \in Errors : RetryThrows(err)

SpecAuth == InitAuth /\ [][NextAuth]_vars

\* What was done for message m, in order.
DoneFor(m) == SelectSeq(command.trace, LAMBDA d : d.message = m)

HowMany(op, m) == Len(SelectSeq(DoneFor(m), LAMBDA d : d.op = op))

\* Message m is dealt with: the command has ended or gone back to asking.
DealtWith(m) ==
    \/ command.message > m
    \/ command.at \in {"asking", "exit0", "exit1"}

\* The first send of message m threw an authentication error.
AuthFailed(m) ==
    /\ Len(DoneFor(m)) >= 2
    /\ DoneFor(m)[2].op = "throw"
    /\ isAuthError(DoneFor(m)[2].arg)

Refreshed(m) == \E k \in 1..Len(DoneFor(m)) :
                    DoneFor(m)[k].op = "refresh" /\ DoneFor(m)[k].arg # "null"

Guided(m) == \E k \in 1..Len(DoneFor(m)) :
                 /\ DoneFor(m)[k].op = "print"
                 /\ DoneFor(m)[k].arg \in {"could not refresh, run connect", "refresh failed, use /connect"}

\* C28: in both modes, for every message the command has dealt with: an
\* authentication error from the stream leads to exactly one refresh attempt;
\* after a successful refresh the same message is sent again exactly once,
\* through the new client; after a failed refresh the guidance to reconnect
\* is shown and nothing is sent again; any other outcome leads to no refresh
\* and no second send.
C28_RefreshOnceThenResendOnce ==
    command.mode \in {"oneshot", "repl"} =>
        \A m \in 1..command.message : DealtWith(m) =>
            IF AuthFailed(m)
            THEN /\ HowMany("refresh", m) = 1
                 /\ IF Refreshed(m)
                    THEN /\ HowMany("send", m) = 2
                         /\ \E k \in 2..Len(DoneFor(m)) :
                               /\ DoneFor(m)[k].op = "send"
                               /\ DoneFor(m)[k].gw = DoneFor(m)[1].gw + 1
                    ELSE /\ HowMany("send", m) = 1
                         /\ Guided(m)
            ELSE /\ HowMany("refresh", m) = 0
                 /\ HowMany("send", m) = 1

\* C29: a frame fetch that fails during any render, the initial one included,
\* ends the session: the process exits with status 1, cleanup has run (not
\* running, no listener, raw mode released) and the error message, printed
\* after cleanup cleared the screen, is what the terminal shows.
C29_RenderFailureIsFatal ==
    [][(\E i \in 1..Len(tasks) : RenderReject(i))
          => /\ proc' = "exit1"
             /\ ~session'.running
             /\ ~terminal'.raw
             /\ ~terminal'.listening
             /\ terminal'.releases = terminal.releases + 1
             /\ terminal'.screen = "cleared"
             /\ terminal'.printed = "error"]_vars

\* C29 witness: a session that had handled a key press has exited with
\* status 1, raw mode released and the error message on the terminal.
C29_Witness ==
    /\ proc = "exit1"
    /\ pressed >= 1
    /\ ~terminal.raw
    /\ terminal.releases = 1
    /\ terminal.printed = "error"

\* The renders in flight: frame fetched, screen not yet written.
Rendering == {i \in 1..Len(tasks) : tasks[i].at = "render"}

\* A trigger arrives: a key press, a timer tick or a pushed frame.
Trigger ==
    \/ \E key \in Keys : Keypress(key)
    \/ TimerTick
    \/ \E frame \in Frames : \E wellFormed \in BOOLEAN : PushFrame(frame, wellFormed)

\* C30: at most one render is in flight at any time, and a trigger that
\* arrives while a render is in flight starts no render and leaves the
\* cursor, the scroll offset and the key map as they are.
C30_OneRenderAtATime ==
    /\ [](Cardinality(Rendering) <= 1)
    /\ [][(Rendering # {} /\ Trigger)
             => /\ Cardinality(Rendering') <= Cardinality(Rendering)
                /\ session'.selected = session.selected
                /\ session'.scroll = session.scroll
                /\ session'.keyMap = session.keyMap]_vars

\* The questions outstanding: handlers waiting in promptUser.
Questions == {i \in 1..Len(tasks) : tasks[i].at \in {"prompt", "confirm"}}

\* C31: at most one prompt or confirmation question is outstanding at any
\* time, and a key handled while a question is outstanding starts no question
\* and releases nothing: the raw-mode pairs of two handlers never interleave.
C31_OneQuestionAtATime ==
    /\ [](Cardinality(Questions) <= 1)
    /\ [][(Questions # {} /\ \E key \in Keys : Keypress(key))
             => /\ Cardinality(Questions') <= Cardinality(Questions)
                /\ terminal'.releases = terminal.releases]_vars

\* C32: while a prompt or confirmation question is outstanding, a pushed
\* frame leaves the screen as it is, a timer tick starts no render, and the
\* question stays on the screen until it is answered.
C32_QuestionSuspendsRenders ==
    /\ [][(Questions # {} /\ \E frame \in Frames : \E wellFormed \in BOOLEAN :
                                 PushFrame(frame, wellFormed))
             => terminal'.screen = terminal.screen]_vars
    /\ [][(Questions # {} /\ TimerTick) => tasks' = tasks]_vars

\* C33: the running flag never goes back to true; once it is false the
\* process has exited with no handler in flight, the keypress listener is
\* detached and the refresh timer cleared, and no step changes the session,
\* the terminal, the handlers in flight or the submissions any more.
C33_RunningFallsOnce ==
    /\ [][~session.running => ~session'.running]_vars
    /\ [](~session.running
            => /\ proc \in {"exit0", "exit1"}
               /\ tasks = <<>>
               /\ ~terminal.listening
               /\ ~session.refreshTimer)
    /\ [][~session.running => UNCHANGED <<session, terminal, tasks, submitted, proc>>]_vars

\* C33 witness: a connect session ended by a quit key with its push
\* connection open: the flag is false and the connection aborted.
C33_Witness ==
    /\ session.cmd = "connect"
    /\ ~session.running
    /\ session.sse = "aborted"
    /\ proc = "exit0"
    /\ pressed >= 1

\* C34: raw mode is held when the first render starts; while the session is
\* starting or running it is off only while a question is outstanding; and
\* the answer that ends a handler's prompt/confirm sub-flow, into the
\* submission or into the re-render of a cancelled action, leaves raw mode held.
C34_RawExceptWhileAsking ==
    /\ [](proc = "initializing" => terminal.raw /\ Rendering # {})
    /\ []((proc \in {"initializing", "running"} /\ ~terminal.raw) => Questions # {})
    /\ [][\A i \in Questions :
             (/\ (\E a \in Answers : PromptAnswer(i, a)) \/ (\E a \in ConfirmAnswers : ConfirmAnswer(i, a))
              /\ tasks'[i].at \in {"post", "render"})
                => terminal'.raw]_vars

\* C34 witness: a handler has asked its two prompts and submitted the two
\* answers; the submission is awaited with raw mode held.
C34_Witness ==
    /\ proc = "running"
    /\ Len(tasks) = 1
    /\ tasks[1].at = "post"
    /\ Len(tasks[1].inputs) = 2
    /\ Len(submitted) = 1
    /\ terminal.raw

\* The row the cursor moves to on a navigation key.
Moved(key, row) ==
    CASE key = ArrowUp   -> row - 1
      [] key = ArrowDown -> row + 1
      [] key = PageUp    -> Max(0, row - PageRows)
      [] key = PageDown  -> row + PageRows

\* C35 as stated: every navigation key press handled by a running session
\* starts a render.
C35_NavigationAlwaysRenders ==
    [][\A key \in NavigationKeys :
          (session.running /\ Keypress(key)) => tasks' = Append(tasks, RenderTask)]_vars

\* C35 amended: where navigation applies (connect, or a dashboard whose
\* metadata says navigable) a navigation key press moves the cursor and starts
\* one render, except Arrow Up on row 0; Arrow Up on row 0, and any navigation
\* key in a dashboard that is not navigable, changes nothing and renders nothing.
C35_NavigationRendersWhereItApplies ==
    [][\A key \in NavigationKeys :
          (session.running /\ Keypress(key))
             => IF Navigates(session) /\ (key = ArrowUp => session.selected > 0)
                THEN /\ session'.selected = Moved(key, session.selected)
                     /\ tasks' = Append(tasks, RenderTask)
                ELSE UNCHANGED <<session, tasks, terminal, submitted, proc>>]_vars

\* C35 witness: the last step handled Page Down: the cursor is one page down
\* and the frame fetch is in flight.
C35_Witness ==
    /\ proc = "running"
    /\ lastKey = PageDown
    /\ session.selected = PageRows
    /\ session.scroll = PageRows
    /\ Len(tasks) = 1
    /\ tasks[1].at = "render"

\* ---------------------------------------------------------------------------
\* The cursor under long runs of navigation keys: the same sessions and the
\* same handler, with no cap on the number of key presses but one on the row.
\* ---------------------------------------------------------------------------

\* The last row the cursor is taken to.
MaxRow == 45

\* a navigation key press
Navigate(key) ==
    /\ lastKey' = key
    /\ key \in NavigationKeys
    /\ proc = "running"
    /\ terminal.listening
    /\ terminal.raw
    /\ \E h \in {keypress(Here, key)} :
         /\ Len(h.tasks) <= MaxTasks
         /\ h.session.selected <= MaxRow
         /\ Becomes(h)
    /\ UNCHANGED <<trackerVars, chatVars, pressed>>

NextNav ==
    \/ \E key \in NavigationKeys : Navigate(key)
    \/ \E i \in 1..MaxTasks : \E frame \in Frames : RenderResolve(i, frame)

SpecNav == InitTui /\ [][NextNav]_vars

\* C36: starting from selected = 0 and scroll = 0, after any sequence of
\* navigation key presses 0 <= scroll <= selected <= scroll + 19: the selected
\* row lies in the 20-row window that starts at scroll.
C36_CursorInWindow ==
    session.cmd \in {"connect", "dashboard"} =>
        /\ 0 <= session.scroll
        /\ session.scroll <= session.selected
        /\ session.selected <= session.scroll + PageRows - 1

\* C36 witness: twenty Arrow Down presses from the top: the cursor is on row
\* 20 and the window has followed it by one row.
C36_Witness ==
    /\ lastKey = ArrowDown
    /\ session.selected = PageRows
    /\ session.scroll = 1

\* A data line of the frame parses as JSON.
HasEvent(frame) ==
    \E l \in 1..Len(Split(frame)) :
        /\ StartsWith(Split(frame)[l], DataPrefix)
        /\ JSONparse(SliceFrom(Split(frame)[l], 6)).ok

\* C37: an exception raised by the event handler stays inside chatStream.  The
\* stream is not ended by it: chatStream returns only on a done event whose
\* handler completed, and every later frame that carries an event is
\* dispatched; the stream of a throwing text event, text "hi" and done
\* delivers all three events and then returns.
C37_HandlerThrowSwallowed ==
    /\ \A k \in 1..Len(log) : log[k].threw =>
          /\ pc \in {"reading", "done", "eof", "caught-oneshot", "caught-repl"}
          /\ pc = "done" => (log[Len(log)].event.type = "done" /\ ~log[Len(log)].threw)
          /\ \A f \in (log[k].frame + 1)..Len(frames) :
                HasEvent(frames[f]) => \E j \in (k + 1)..Len(log) : log[j].frame = f
    /\ (received = ThrowingStream /\ pc \in {"reading", "done"})
          => /\ Len(log) = 3
             /\ log[1].threw /\ log[1].event.content = NUM
             /\ log[2].event.content = "hi" /\ ~log[2].threw
             /\ log[3].event.type = "done"
             /\ pc = "done"

\* C37 witness: the handler threw on the first event, and the text and the
\* done event of the frames that follow were dispatched.
C37_Witness ==
    /\ pc = "done"
    /\ Len(log) = 3
    /\ log[1].threw
    /\ log[3].event.type = "done"
    /\ log[3].frame = 3

\* ---------------------------------------------------------------------------
\* runOAuthFlow (lib/auth.ts): the local callback server of `starkbot login`.
\* ---------------------------------------------------------------------------

\* The most requests the local server is sent in one flow.
MaxRequests == 2

\* url.searchParams.get(name) of a parameter that is absent
NULL == "null"

\* randomBytes(16).toString("hex"): the values the generator may give
Nonces == {"nonce-a", "nonce-b"}

\* The requests the local server may be sent: path, and the parameters nonce,
\* jwt, username and tenant_id of the query.
Requests ==
    [path : {"/callback"},
     nonce : Nonces \cup {NULL},
     jwt : {NULL, "", "jwt-1"},
     username : {NULL, "bob"},
     tenant_id : {NULL, "tenant-1"}]
    \cup {[path |-> "/", nonce |-> NULL, jwt |-> NULL, username |-> NULL, tenant_id |-> NULL]}

NoRequest == [path |-> UNDEF, nonce |-> NULL, jwt |-> NULL, username |-> NULL, tenant_id |-> NULL]

\* interface AuthResult, and the message of the Error of a rejection
AuthResult(jwt, username, tenant_id) ==
    [jwt |-> jwt, username |-> username, tenant_id |-> tenant_id, error |-> UNDEF]

Rejection(msg) == [jwt |-> UNDEF, username |-> UNDEF, tenant_id |-> UNDEF, error |-> msg]

NoResult == AuthResult(UNDEF, UNDEF, UNDEF)

\* res.writeHead(code); res.end(...)
respond(c, req, code) ==
    [c EXCEPT !.request = req, !.response = code, !.requests = @ + 1]

\* clearTimeout(timeout): nothing to clear before the timer is set or after it fired
clearTimeout(c) ==
    [c EXCEPT !.timeout = IF @ = "armed" THEN "cleared" ELSE @]

\* server.close()
close(c) ==
    [c EXCEPT !.server = "closed"]

\* resolve(value): a promise is settled once
resolve(c, value) ==
    IF c.promise = "pending"
    THEN [c EXCEPT !.promise = "resolved", !.result = value, !.by = c.request]
    ELSE c

\* reject(new Error(msg))
reject(c, msg) ==
    IF c.promise = "pending"
    THEN [c EXCEPT !.promise = "rejected", !.result = Rejection(msg), !.by = c.request]
    ELSE c

\* the request handler without the nonce check
handleUnchecked(c, req) ==
    IF req.path = "/callback"
    THEN IF req.jwt # NULL /\ req.jwt # "" /\ req.username # NULL /\ req.username # ""
         THEN resolve(close(clearTimeout(respond(c, req, 200))),
                      AuthResult(req.jwt, req.username,
                                 IF req.tenant_id = NULL THEN UNDEF ELSE req.tenant_id))
         ELSE reject(close(clearTimeout(respond(c, req, 400))),
                     "OAuth callback missing jwt or username")
    ELSE respond(c, req, 404)

\* createServer((req, res) => { ... })
handle(c, req) ==
    IF req.path = "/callback"
    THEN IF req.nonce # c.csrfNonce
         THEN respond(c, req, 403)
         ELSE IF req.jwt # NULL /\ req.jwt # "" /\ req.username # NULL /\ req.username # ""
              THEN resolve(close(clearTimeout(respond(c, req, 200))),
                           AuthResult(req.jwt, req.username,
                                      IF req.tenant_id = NULL THEN UNDEF ELSE req.tenant_id))
              ELSE reject(close(clearTimeout(respond(c, req, 400))),
                          "OAuth callback missing jwt or username")
    ELSE respond(c, req, 404)

\* new Promise((resolve, reject) => { csrfNonce = ...; server = createServer(...);
\* server.listen(0, "127.0.0.1", ...) })
InitOAuth ==
    /\ InitTracker
    /\ pending = <<>>
    /\ received = <<>>
    /\ straddled = FALSE
    /\ carry = <<>>
    /\ buffer = <<>>
    /\ frames = <<>>
    /\ log = <<>>
    /\ handled = 0
    /\ pc = "idle"
    /\ NoSession
    /\ \E n \in Nonces :
          command = [mode |-> "login", csrfNonce |-> n, server |-> "starting", at |-> "listen",
                     timeout |-> "unset", promise |-> "pending", result |-> NoResult,
                     by |-> NoRequest, request |-> NoRequest, response |-> 0, requests |-> 0]

\* the server listens: the listen callback runs up to `await client.getAuthUrl(callbackUrl)`
Listening ==
    /\ command.mode = "login"
    /\ command.at = "listen"
    /\ command' = [command EXCEPT !.server = "listening", !.at = "getAuthUrl"]
    /\ UNCHANGED notCommand

\* server.on("error", ...): the server cannot listen
ServerError ==
    /\ command.mode = "login"
    /\ command.at = "listen"
    /\ command' = [reject(command, "Local server error") EXCEPT !.server = "closed", !.at = "end"]
    /\ UNCHANGED notCommand

\* an await of the listen callback resolves: getAuthUrl, the Enter key, open(url);
\* after open(url) the timeout is set
SetupStep ==
    /\ command.mode = "login"
    /\ command.at \in {"getAuthUrl", "question", "open"}
    /\ command' =
         CASE command.at = "getAuthUrl" -> [command EXCEPT !.at = "question"]
           [] command.at = "question"   -> [command EXCEPT !.at = "open"]
           [] command.at = "open"       -> [command EXCEPT !.at = "end", !.timeout = "armed"]
    /\ UNCHANGED notCommand

\* getAuthUrl or open(url) rejects: printError; server.close(); reject(err)
SetupFails ==
    /\ command.mode = "login"
    /\ command.at \in {"getAuthUrl", "open"}
    /\ command' = [reject(close(command), "Failed to start login") EXCEPT !.at = "end"]
    /\ UNCHANGED notCommand

\* the timer fires after 5 minutes: server.close(); reject("Login timed out")
TimeoutFires ==
    /\ command.mode = "login"
    /\ command.timeout = "armed"
    /\ command' = reject(close([command EXCEPT !.timeout = "fired"]), "Login timed out")
    /\ UNCHANGED notCommand

\* a request reaches the local server: on a new connection while it listens,
\* on a connection kept open after server.close()
Request(req) ==
    /\ command.mode = "login"
    /\ command.server \in {"listening", "closed"}
    /\ command.at # "listen"
    /\ command.requests < MaxRequests
    /\ command' = handle(command, req)
    /\ UNCHANGED notCommand

NextOAuth ==
    \/ Listening
    \/ ServerError
    \/ SetupStep
    \/ SetupFails
    \/ TimeoutFires
    \/ \E req \in Requests : Request(req)

SpecOAuth == InitOAuth /\ [][NextOAuth]_vars

\* C38: the flow resolves only through a /callback request that carries the
\* nonce generated for this flow, with the jwt and username of that request;
\* a /callback request with a missing or different nonce is answered 403 and,
\* whatever jwt and username it carries, settles nothing and leaves the
\* server and the timeout as they were.
C38_OnlyTheFlowNonceResolves ==
    /\ [](command.mode = "login" /\ command.promise = "resolved"
             => /\ command.by.path = "/callback"
                /\ command.by.nonce = command.csrfNonce
                /\ command.result.jwt = command.by.jwt
                /\ command.result.username = command.by.username)
    /\ [][\A req \in Requests :
             (Request(req) /\ req.path = "/callback" /\ req.nonce # command.csrfNonce)
                => /\ command'.response = 403
                   /\ command'.promise = command.promise
                   /\ command'.result = command.result
                   /\ command'.server = command.server
                   /\ command'.timeout = command.timeout]_vars

\* C38 witness: a callback with another flow's nonce, a jwt and a username was
\* answered 403: the flow is pending, the server listens, the timeout is armed.
C38_Witness ==
    /\ command.mode = "login"
    /\ command.response = 403
    /\ command.request.nonce \in Nonces \ {command.csrfNonce}
    /\ command.request.jwt = "jwt-1"
    /\ command.request.username = "bob"
    /\ command.promise = "pending"
    /\ command.server = "listening"
    /\ command.timeout = "armed"

\* ---------------------------------------------------------------------------
\* provisionCommand (commands/provision.ts) from `await client.provision()` on.
\* ---------------------------------------------------------------------------

\* const maxAttempts = 60
maxAttempts == 60

\* What getDeploymentStatus may answer; status absent makes toLowerCase throw.
DeploymentStatuses ==
    [ready : BOOLEAN, needs_reprovision : BOOLEAN,
     status : {"starting", "running", "Failed", "failed", "CRASHED", UNDEF}]

\* the command ends: spin.fail(...) and return, or the path after the loop
ended(c, outcome) ==
    [c EXCEPT !.at = "end", !.outcome = outcome]

\* after the loop: spin.stop(); updateCredentials({ instance_domain: result.domain });
\* printSuccess(...)
provisioned(c) ==
    ended([c EXCEPT !.domain = "result.domain"], "provisioned")

\* while (attempts < maxAttempts) { await new Promise((r) => setTimeout(r, 2000)); ...
loop(c) ==
    IF c.attempts < maxAttempts THEN [c EXCEPT !.at = "sleep"] ELSE provisioned(c)

\* the body of the try block with the two returns left out
polledFailureIgnored(c, st) ==
    IF st.ready THEN provisioned(c) ELSE loop(c)

\* the body of the try block of the loop, on the answer st; a throw of
\* status.status.toLowerCase() is caught and the loop goes on
polled(c, st) ==
    IF st.ready THEN provisioned(c)
    ELSE IF st.needs_reprovision THEN ended(c, "deployment failed")
    ELSE IF st.status = UNDEF THEN loop(c)
    ELSE IF toLowerCase(st.status) \in {"failed", "crashed"} THEN ended(c, "deployment failed")
    ELSE loop(c)

InitProvision ==
    /\ InitTracker
    /\ pending = <<>>
    /\ received = <<>>
    /\ straddled = FALSE
    /\ carry = <<>>
    /\ buffer = <<>>
    /\ frames = <<>>
    /\ log = <<>>
    /\ handled = 0
    /\ pc = "idle"
    /\ NoSession
    /\ command = [mode |-> "provision", at |-> "provision", attempts |-> 0, polls |-> 0,
                  domain |-> "stored", outcome |-> "none", last |-> "none"]

\* client.provision() resolves: with success the loop is entered
ProvisionResolves(success) ==
    /\ command.mode = "provision"
    /\ command.at = "provision"
    /\ command' = IF success THEN loop(command) ELSE ended(command, "provisioning failed")
    /\ UNCHANGED notCommand

\* client.provision() rejects: the outer catch
ProvisionRejects ==
    /\ command.mode = "provision"
    /\ command.at = "provision"
    /\ command' = ended(command, "error")
    /\ UNCHANGED notCommand

\* the 2 s timer fires: attempts++ and the status request is sent
Sleep ==
    /\ command.mode = "provision"
    /\ command.at = "sleep"
    /\ command' = [command EXCEPT !.at = "poll", !.attempts = @ + 1, !.polls = @ + 1]
    /\ UNCHANGED notCommand

\* getDeploymentStatus() resolves with st
PollResolves(st) ==
    /\ command.mode = "provision"
    /\ command.at = "poll"
    /\ command' = [polled(command, st) EXCEPT !.last = "answered"]
    /\ UNCHANGED notCommand

\* getDeploymentStatus() rejects: catch { }, and the loop goes on
PollRejects ==
    /\ command.mode = "provision"
    /\ command.at = "poll"
    /\ command' = [loop(command) EXCEPT !.last = "rejected"]
    /\ UNCHANGED notCommand

NextProvision ==
    \/ \E success \in BOOLEAN : ProvisionResolves(success)
    \/ ProvisionRejects
    \/ Sleep
    \/ \E st \in DeploymentStatuses : PollResolves(st)
    \/ PollRejects

\* every timer fires and every request settles
SpecProvision == InitProvision /\ [][NextProvision]_vars /\ WF_vars(NextProvision)

\* A poll reports a failure: needs_reprovision, or a status failed or crashed.
ReportsFailure(st) ==
    \/ st.needs_reprovision
    \/ st.status # UNDEF /\ toLowerCase(st.status) \in {"failed", "crashed"}

\* The loop sends at most maxAttempts status requests and the command ends.
PollingTerminates ==
    /\ [](command.mode = "provision"
             => /\ command.polls <= maxAttempts
                /\ command.at = "sleep" => command.polls < maxAttempts)
    /\ <>(command.mode = "provision" /\ command.at = "end")

\* C39 as stated: the polling loop ends after at most 60 polls, and a poll
\* that reports a failure ends the command with the stored domain unchanged.
C39_FailureKeepsDomain ==
    /\ PollingTerminates
    /\ [][\A st \in DeploymentStatuses :
             (PollResolves(st) /\ ReportsFailure(st))
                => /\ command'.at = "end"
                   /\ command'.outcome = "deployment failed"
                   /\ command'.domain = command.domain]_vars

\* C39 amended: the polling loop ends after at most 60 polls; a poll that is
\* not ready and reports a failure ends the command with the stored domain
\* unchanged; a poll that says ready ends the loop and the domain is stored,
\* whatever else it reports.
C39_FailureWithoutReadyKeepsDomain ==
    /\ PollingTerminates
    /\ [][\A st \in DeploymentStatuses :
             PollResolves(st)
                => IF st.ready
                   THEN command'.at = "end" /\ command'.domain = "result.domain"
                   ELSE ReportsFailure(st)
                           => /\ command'.at = "end"
                              /\ command'.outcome = "deployment failed"
                              /\ command'.domain = command.domain]_vars

\* C39 witness: the sixtieth poll reported a failure: the command has ended
\* and the stored domain is the one it started with.
C39_Witness ==
    /\ command.mode = "provision"
    /\ command.at = "end"
    /\ command.polls = maxAttempts
    /\ command.outcome = "deployment failed"
    /\ command.domain = "stored"

====
